---- MODULE Spec2Model ----
(***************************************************************************)
(* Model of PipelineManager (pipeline-manager/src/pipeline_manager/main.py) *)
(* : one pipeline run as a sequence of awaited steps, with the classifier,  *)
(* the version oracle call, tag generation, image publish, chart update and *)
(* Helm OCI push.  Python strings are sequences of one-character strings;   *)
(* Python values that may be None are records [t, s].                       *)
(***************************************************************************)
EXTENDS Integers, Sequences, FiniteSets, TLC

\* ---------------------------------------------------------------- bounds
\* first clock reading of a run (2024-01-01 23:59:59 UTC) and how many
\* seconds the clock may advance during the run
StartClock == 1704153599
MaxTicks == 2

\* ------------------------------------------------------ python values
None == [t |-> "none", s |-> <<>>]
Str(s) == [t |-> "str", s |-> s]
\* truthiness of a str|None value: None and "" are falsy
Truthy(v) == v.t = "str" /\ v.s # <<>>
\* f"{v}" : None formats as the text None
Format(v) == IF v.t = "none" THEN <<"N", "o", "n", "e">> ELSE v.s

\* ----------------------------------------------------------- constants
MAIN_BRANCH == <<"m", "a", "i", "n">>

\* Environment enum values
STABLE == "stable"
LATEST == "latest"
REVIEW == "review"
LOCAL_ENV == "local"
LATEST_OR_STABLE == "latest_or_stable"
CI == "ci"
NONE == "none"

Environment == {STABLE, LATEST, REVIEW, LOCAL_ENV, LATEST_OR_STABLE, CI, NONE}
\* Environment.X.value as text
EnvValue(e) ==
    CASE e = STABLE -> <<"s", "t", "a", "b", "l", "e">>
      [] e = LATEST -> <<"l", "a", "t", "e", "s", "t">>
      [] e = REVIEW -> <<"r", "e", "v", "i", "e", "w">>
      [] e = LOCAL_ENV -> <<"l", "o", "c", "a", "l">>
      [] e = LATEST_OR_STABLE -> <<"l", "a", "t", "e", "s", "t", "_", "o", "r", "_", "s", "t", "a", "b", "l", "e">>
      [] e = CI -> <<"c", "i">>
      [] OTHER -> <<"n", "o", "n", "e">>

\* ------------------------------------------------------- input domains
\* run(github_token=...): a Secret or None
Tokens == {"None", "secret"}
\* run(branch=...)
Branches == { MAIN_BRANCH,
              <<"f", "e", "a", "t", "u", "r", "e", "-", "a">>,
              <<"4", "2", "-", "f", "i", "x">>,
              <<"4", "2", "x">>,
              <<"x", "7", "-", "y">>,
              <<"f", "/", "x">> }
\* run(commit_hash=...)
CommitHashes == { <<"a", "b", "c", "1", "2", "3">> }
\* run(registry_path=...)
RegistryPaths == { <<"g", "h", "c", "r", ".", "i", "o", "/", "a">> }
\* run(app_name=...)
AppNames == { <<"a", "p", "p">> }
\* .version read from Chart.yaml of the chart repository
ChartVersions == { <<"0", ".", "1", ".", "0">>, <<"0", ".", "2", ".", "0">> }
\* ingress.host of values.yaml in the chart repository
IngressHosts == { <<"a", "p", "p", ".", "x">> }

\* what dag.semantic_release().semanticrelease(...) can hand back:
\* the call raises, or it returns text that is not JSON, JSON null, a JSON
\* array, or a JSON object holding any subset of the two keys
LastValues == { None, Str(<<>>), Str(<<"1", ".", "2", ".", "3">>) }
NextValues == { None, Str(<<>>), Str(<<"1", ".", "3", ".", "0">>) }
OracleKeys == {"last_release", "next_release"}
OracleOutputs ==
    { [kind |-> k, keys |-> {}, last |-> None, next |-> None] :
          k \in {"raise", "text", "null", "array"} }
    \cup
    { [kind |-> "object", keys |-> ks,
       last |-> IF "last_release" \in ks THEN l ELSE None,
       next |-> IF "next_release" \in ks THEN n ELSE None] :
          ks \in SUBSET OracleKeys, l \in LastValues, n \in NextValues }
NoOutput == [kind |-> "unset", keys |-> {}, last |-> None, next |-> None]

\* ------------------------------------------------- text formatting
Digit(d) == CASE d = 0 -> "0" [] d = 1 -> "1" [] d = 2 -> "2" [] d = 3 -> "3"
              [] d = 4 -> "4" [] d = 5 -> "5" [] d = 6 -> "6" [] d = 7 -> "7"
              [] d = 8 -> "8" [] OTHER -> "9"

\* str(n) for a natural number n
RECURSIVE IntToStr(_)
IntToStr(n) == IF n < 10 THEN <<Digit(n)>>
               ELSE IntToStr(n \div 10) \o <<Digit(n % 10)>>

\* n formatted on at least w digits, zero padded (%Y, %m, %d)
RECURSIVE ZeroPad(_, _)
ZeroPad(txt, w) == IF Len(txt) >= w THEN txt ELSE ZeroPad(<<"0">> \o txt, w)

\* calendar date (UTC) of a unix timestamp, as strftime("%Y-%m-%d") prints it
StrfDate(ts) ==
    LET z == (ts \div 86400) + 719468
        era == z \div 146097
        doe == z - era * 146097
        yoe == (doe - doe \div 1460 + doe \div 36524 - doe \div 146096) \div 365
        doy == doe - (365 * yoe + yoe \div 4 - yoe \div 100)
        mp == (5 * doy + 2) \div 153
        d == doy - (153 * mp + 2) \div 5 + 1
        m == IF mp < 10 THEN mp + 3 ELSE mp - 9
        y == yoe + era * 400 + (IF m <= 2 THEN 1 ELSE 0)
    IN  ZeroPad(IntToStr(y), 4) \o <<"-">> \o ZeroPad(IntToStr(m), 2)
            \o <<"-">> \o ZeroPad(IntToStr(d), 2)

\* f"{current_date}.{current_timestamp}" for the clock reading now
DateTimestamp(now) == StrfDate(now) \o <<".">> \o IntToStr(now)

\* --------------------------------------------------------------- state
VARIABLES
    pc,                       \* position of run() : the step about to execute
    clock,                    \* datetime.now(), unix seconds
    github_token, branch, commit_hash, registry_path, app_name,  \* run() parameters
    environment,              \* self.environment
    semantic_release_result,  \* self.semantic_release_result
    version,                  \* self.version
    tags,                     \* self.tags : None or a list
    current_date_timestamp,   \* self.current_date_timestamp (None: not set)
    tagIdx,                   \* loop index of _publish_docker_image
    current_version,          \* current_version local of _update_chart_files
    review_prefix,            \* review_prefix local of _update_chart_files
    chartRemote,              \* chart files on the chart repository's main
    chartLocal,               \* chart files in the helm container of this run
    published,                \* image references pushed, in order
    pushes,                   \* commits pushed to the chart repository
    envTrace,                 \* every value assigned to self.environment
    oracleCalls,              \* calls of semanticrelease
    oracle,                   \* outcome of the last semanticrelease call
    tagCalls,                 \* completed calls of _create_tag
    chartCalls,               \* calls of _update_chart_files
    chartWrites,              \* yq -i edits executed in the helm container
    ociCalls,                 \* calls of helm_oci_release().run
    ociOutcome,               \* what HelmOciRelease.run did in that call
    store,                    \* attributes of the class and of two instances
    conc,                     \* position and parameters of two run() calls
    detEnv,                   \* one call of DetermineEnvironment.getenv
    tagMod,                   \* one call of CreateTag / DetermineTag.createtag
    chartUp,                  \* one call of ChartUpdater.updatechart
    semRel,                   \* one call of SemanticRelease.semanticrelease
    failedAt                  \* step whose exception ended the run

inputs == <<github_token, branch, commit_hash, registry_path, app_name>>
fields == <<environment, semantic_release_result, version, tags,
            current_date_timestamp>>
locals == <<tagIdx, current_version, review_prefix>>
chartState == <<chartRemote, chartLocal>>
effects == <<published, pushes>>
counters == <<oracleCalls, tagCalls, chartCalls, chartWrites, ociCalls,
              ociOutcome>>
twoRuns == <<store, conc>>
modules == <<detEnv, tagMod, chartUp, semRel>>
vars == <<pc, clock, inputs, fields, locals, chartState, effects, envTrace,
          counters, oracle, failedAt,
          twoRuns, modules>>

NoTags == [t |-> "none", l |-> <<>>]
List(l) == [t |-> "list", l |-> l]
NoResult == [stage |-> "none", out |-> NoOutput]
NoChart == [present |-> FALSE, version |-> <<>>, appVersion |-> <<>>,
            imageTag |-> <<>>, ingressHost |-> <<>>]

\* two PipelineManager objects, one per call of run(): the class attributes
\* of lines 23-28 and each object's own attribute dictionary, empty at first
RunIds == {1, 2}
NoAttributes == [f \in {} |-> None]
ClassAttributes ==
    [environment |-> NONE, semantic_release_result |-> NoResult,
     version |-> None, tags |-> NoTags]
InitStore == [class |-> ClassAttributes, inst |-> [i \in RunIds |-> NoAttributes]]
\* per call: its position, its parameters, and what it was handed back by
\* the oracle, the clock and the chart repository
InitConc ==
    [i \in RunIds |->
        [pc |-> "init", github_token |-> "None", branch |-> <<>>,
         commit_hash |-> <<>>, out |-> NoOutput, tagClock |-> StartClock,
         cur |-> <<>>]]

\* the other modules of the repository are separate Dagger objects; none of
\* them is called by a run of the pipeline manager modelled here
NoCall == [pc |-> "idle"]
ModulesIdle ==
    /\ detEnv = NoCall /\ tagMod = NoCall /\ chartUp = NoCall
    /\ semRel = NoCall

\* class attributes of PipelineManager; the parameters are not yet stored
Init ==
    /\ pc = "init"
    /\ clock = StartClock
    /\ github_token = "None" /\ branch = <<>> /\ commit_hash = <<>>
    /\ registry_path = <<>> /\ app_name = <<>>
    /\ environment = NONE
    /\ semantic_release_result = NoResult
    /\ version = None
    /\ tags = NoTags
    /\ current_date_timestamp = None
    /\ tagIdx = 0 /\ current_version = <<>> /\ review_prefix = <<>>
    /\ chartRemote \in { [present |-> TRUE, version |-> v, appVersion |-> v,
                          imageTag |-> v, ingressHost |-> h] :
                            v \in ChartVersions, h \in IngressHosts }
    /\ chartLocal = NoChart
    /\ published = <<>> /\ pushes = <<>>
    /\ envTrace = <<NONE>>
    /\ oracle = NoOutput
    /\ oracleCalls = 0 /\ tagCalls = 0 /\ chartCalls = 0 /\ chartWrites = <<>>
    /\ ociCalls = 0
    /\ ociOutcome = "none"
    /\ failedAt = "none"
    /\ store = InitStore
    /\ conc = InitConc
    /\ ModulesIdle

\* an exception leaves run(): nothing after the raising statement executes
Raise(step) == pc' = "failed" /\ failedAt' = step

\* the wall clock advances while a run is in progress
Tick ==
    /\ pc \notin {"init", "done", "failed"}
    /\ clock < StartClock + MaxTicks
    /\ clock' = clock + 1
    /\ UNCHANGED <<oracle, pc, inputs, fields, locals, chartState, effects, envTrace,
                   counters, failedAt>>
    /\ UNCHANGED <<twoRuns, modules>>

\* run(): store the parameters
Run ==
    /\ pc = "init"
    /\ github_token' \in Tokens
    /\ branch' \in Branches
    /\ commit_hash' \in CommitHashes
    /\ registry_path' \in RegistryPaths
    /\ app_name' \in AppNames
    /\ pc' = "unit_tests"
    /\ UNCHANGED <<oracle, clock, fields, locals, chartState, effects, envTrace,
                   counters, failedAt>>
    /\ UNCHANGED <<twoRuns, modules>>

\* Step 1
unit_tests ==
    /\ pc = "unit_tests"
    /\ pc' = "check_if_ci"
    /\ UNCHANGED <<oracle, clock, inputs, fields, locals, chartState, effects,
                   envTrace, counters, failedAt>>
    /\ UNCHANGED <<twoRuns, modules>>

\* Step 2
CheckIfCiEnv(token) == IF token # "None" THEN CI ELSE LOCAL_ENV

check_if_ci ==
    /\ pc = "check_if_ci"
    /\ environment' = CheckIfCiEnv(github_token)
    /\ envTrace' = Append(envTrace, environment')
    /\ pc' = "build_docker_image"
    /\ UNCHANGED <<oracle, clock, inputs, semantic_release_result, version, tags,
                   current_date_timestamp, locals, chartState, effects,
                   counters, failedAt>>
    /\ UNCHANGED <<twoRuns, modules>>

\* Step 3: docker_build() succeeds or raises (re-raised by the except)
build_docker_image ==
    /\ pc = "build_docker_image"
    /\ \/ pc' = "check_if_review" /\ UNCHANGED failedAt
       \/ Raise("build_docker_image")
    /\ UNCHANGED <<oracle, clock, inputs, fields, locals, chartState, effects,
                   envTrace, counters>>
    /\ UNCHANGED <<twoRuns, modules>>

\* Step 4: the branch decides, whatever step 2 found
CheckIfReviewEnv_NoBranchTest(b) == LATEST_OR_STABLE

CheckIfReviewEnv(b) == IF b = MAIN_BRANCH THEN LATEST_OR_STABLE ELSE REVIEW

check_if_review ==
    /\ pc = "check_if_review"
    /\ environment' = CheckIfReviewEnv(branch)
    /\ envTrace' = Append(envTrace, environment')
    /\ pc' = "run_semantic_release"
    /\ UNCHANGED <<oracle, clock, inputs, semantic_release_result, version, tags,
                   current_date_timestamp, locals, chartState, effects,
                   counters, failedAt>>
    /\ UNCHANGED <<twoRuns, modules>>

\* json.loads(text): raises on text that is not JSON, else the parsed value
JsonLoads_DefaultOnError(out) ==
    IF out.kind = "text"
    THEN [error |-> FALSE,
          val |-> [kind |-> "object", keys |-> OracleKeys,
                   last |-> None, next |-> None]]
    ELSE [error |-> FALSE, val |-> out]

JsonLoads(out) ==
    IF out.kind = "text" THEN [error |-> TRUE, val |-> NoOutput]
    ELSE [error |-> FALSE, val |-> out]

\* the test of line 162 on the parsed result
HasNextRelease_IsNotNone(val) == val.next.t # "none"

HasNextRelease(val) == Truthy(val.next)

\* Step 5.  What lines 149-169 do with one oracle outcome: the exception
\* raised (or "none"), whether and to what self.environment was assigned, the
\* version assigned, and how far self.semantic_release_result got
\* ("none": the await raised, "raw": the returned text, "parsed": json.loads
\* returned)
ReleaseOutcome(out) ==
    LET Fail(err, stage) ==
            [error |-> err, stage |-> stage, assigned |-> FALSE,
             env |-> LATEST_OR_STABLE, version |-> None]
        val == JsonLoads(out).val
    IN
    CASE out.kind = "raise" -> Fail("QueryError", "none")
      [] out.kind # "raise" /\ JsonLoads(out).error ->
            Fail("JSONDecodeError", "raw")
      [] out.kind # "raise" /\ ~JsonLoads(out).error
            /\ val.kind # "object" -> Fail("TypeError", "parsed")
      [] out.kind # "raise" /\ ~JsonLoads(out).error
            /\ val.kind = "object" /\ "next_release" \notin val.keys ->
            Fail("KeyError", "parsed")
      [] out.kind # "raise" /\ ~JsonLoads(out).error
            /\ val.kind = "object" /\ "next_release" \in val.keys
            /\ HasNextRelease(val) ->
            [error |-> "none", stage |-> "parsed",
             assigned |-> TRUE, env |-> STABLE, version |-> val.next]
      [] out.kind # "raise" /\ ~JsonLoads(out).error
            /\ val.kind = "object" /\ "next_release" \in val.keys
            /\ ~HasNextRelease(val) /\ "last_release" \in val.keys ->
            [error |-> "none", stage |-> "parsed",
             assigned |-> TRUE, env |-> LATEST, version |-> val.last]
      [] OTHER ->
            \* environment is assigned LATEST before ['last_release'] raises
            [error |-> "KeyError", stage |-> "parsed",
             assigned |-> TRUE, env |-> LATEST, version |-> None]

run_semantic_release ==
    /\ pc = "run_semantic_release"
    /\ IF environment = LATEST_OR_STABLE
       THEN \E out \in OracleOutputs :
              LET r == ReleaseOutcome(out) IN
              /\ oracleCalls' = oracleCalls + 1
              /\ oracle' = out
              /\ semantic_release_result' =
                    IF r.stage = "none" THEN semantic_release_result
                    ELSE [stage |-> r.stage, out |-> out]
              /\ environment' = r.env
              /\ envTrace' = IF r.assigned THEN Append(envTrace, r.env)
                             ELSE envTrace
              /\ version' = IF r.error = "none" THEN r.version ELSE version
              /\ IF r.error = "none"
                 THEN pc' = "create_tag" /\ UNCHANGED failedAt
                 ELSE Raise("run_semantic_release")
       ELSE /\ semantic_release_result' = NoResult
            /\ pc' = "create_tag"
            /\ UNCHANGED <<environment, envTrace, version, oracleCalls,
                           oracle, failedAt>>
    /\ UNCHANGED <<clock, inputs, tags, current_date_timestamp, locals,
                   chartState, effects, tagCalls, chartCalls, chartWrites,
                   ociCalls, ociOutcome>>
    /\ UNCHANGED <<twoRuns, modules>>

\* Step 6.  The three tag lists of _create_tag
StableTags_AliasFirst(ver) ==
    <<Str(EnvValue(STABLE)), ver, Str(EnvValue(LATEST))>>

StableTags(ver) == <<ver, Str(EnvValue(STABLE)), Str(EnvValue(LATEST))>>

LatestTags_BareVersion(ver, hash, dts) == <<ver, Str(EnvValue(LATEST))>>

LatestTags(ver, hash, dts) ==
    <<Str(Format(ver) \o <<"-">> \o hash \o <<".">> \o dts),
      Str(EnvValue(LATEST))>>

ReviewTags_WithLatestAlias(br, hash, dts) ==
    <<Str(<<"r", "e", "v", "i", "e", "w", "-">> \o br \o <<"-">> \o hash
          \o <<".">> \o dts),
      Str(EnvValue(LATEST))>>

ReviewTags(br, hash, dts) ==
    <<Str(<<"r", "e", "v", "i", "e", "w", "-">> \o br \o <<"-">> \o hash
          \o <<".">> \o dts)>>

\* self.tags after _create_tag; old is the value it held before
CreateTagTags_ReviewUntagged(env, ver, hash, br, dts, old) ==
    CASE env = STABLE -> List(StableTags(ver))
      [] env = LATEST -> List(LatestTags(ver, hash, dts))
      [] OTHER -> old

CreateTagTags(env, ver, hash, br, dts, old) ==
    CASE env = STABLE -> List(StableTags(ver))
      [] env = LATEST -> List(LatestTags(ver, hash, dts))
      [] env = REVIEW -> List(ReviewTags(br, hash, dts))
      [] OTHER -> old

create_tag ==
    /\ pc = "create_tag"
    /\ current_date_timestamp' = Str(DateTimestamp(clock))
    /\ tags' = CreateTagTags(environment, version, commit_hash, branch,
                             DateTimestamp(clock), tags)
    /\ tagCalls' = tagCalls + 1
    /\ pc' = "publish_docker_image"
    /\ UNCHANGED <<oracle, clock, inputs, environment, semantic_release_result,
                   version, locals, chartState, effects, envTrace,
                   oracleCalls, chartCalls, chartWrites, ociCalls, ociOutcome,
                   failedAt>>
    /\ UNCHANGED <<twoRuns, modules>>

\* Step 7, first await: with_registry_auth resolves or raises; then the
\* for statement raises TypeError when self.tags is None
publish_docker_image ==
    /\ pc = "publish_docker_image"
    /\ IF tags.t = "none"
       THEN Raise("publish_docker_image") /\ UNCHANGED tagIdx
       ELSE \/ pc' = "publish_tag" /\ tagIdx' = 1 /\ UNCHANGED failedAt
            \/ Raise("publish_docker_image") /\ UNCHANGED tagIdx
    /\ UNCHANGED <<oracle, clock, inputs, fields, current_version, review_prefix,
                   chartState, effects, envTrace, counters>>
    /\ UNCHANGED <<twoRuns, modules>>

\* f"{self.registry_path}:{tag}"
ImageRef(reg, tag) == reg \o <<":">> \o Format(tag)

\* for tag in self.tags: the item of iteration i, and the next iteration
PublishOrder_Reversed(l, i) == l[Len(l) + 1 - i]

PublishOrder(l, i) == l[i]

NextTagIdx_Stuck(i) == i

NextTagIdx(i) == i + 1

\* Step 7, loop body with a try/except that skips a tag whose publish failed
publish_tag_SkipFailedTag ==
    /\ pc = "publish_tag"
    /\ tagIdx <= Len(tags.l)
    /\ \/ /\ published' = Append(published,
                ImageRef(registry_path, PublishOrder(tags.l, tagIdx)))
          /\ tagIdx' = NextTagIdx(tagIdx)
          /\ UNCHANGED <<pc, failedAt>>
       \/ /\ tagIdx' = NextTagIdx(tagIdx)
          /\ UNCHANGED <<pc, failedAt, published>>
    /\ UNCHANGED <<oracle, clock, inputs, fields, current_version, review_prefix,
                   chartState, pushes, envTrace, counters>>
    /\ UNCHANGED <<twoRuns, modules>>

\* Step 7, loop body: one publish, which succeeds or raises
publish_tag ==
    /\ pc = "publish_tag"
    /\ tagIdx <= Len(tags.l)
    /\ \/ /\ published' = Append(published,
                ImageRef(registry_path, PublishOrder(tags.l, tagIdx)))
          /\ tagIdx' = NextTagIdx(tagIdx)
          /\ UNCHANGED <<pc, failedAt>>
       \/ /\ Raise("publish_docker_image")
          /\ UNCHANGED <<published, tagIdx>>
    /\ UNCHANGED <<oracle, clock, inputs, fields, current_version, review_prefix,
                   chartState, pushes, envTrace, counters>>
    /\ UNCHANGED <<twoRuns, modules>>

\* Step 7, after the loop: ', '.join(self.tags) raises on a non-str item
publish_done ==
    /\ pc = "publish_tag"
    /\ tagIdx > Len(tags.l)
    /\ IF \E i \in 1..Len(tags.l) : tags.l[i].t = "none"
       THEN Raise("publish_docker_image")
       ELSE pc' = "update_chart_files" /\ UNCHANGED failedAt
    /\ UNCHANGED <<oracle, clock, inputs, fields, locals, chartState, effects,
                   envTrace, counters>>
    /\ UNCHANGED <<twoRuns, modules>>

\* re.match(r"(\d+)-", branch): the digits matched, or <<>> for no match
IsDigit(c) == c \in {"0", "1", "2", "3", "4", "5", "6", "7", "8", "9"}

RECURSIVE DigitRun(_)
DigitRun(b) == IF b # <<>> /\ IsDigit(Head(b))
               THEN <<Head(b)>> \o DigitRun(Tail(b)) ELSE <<>>

IssueNum_NoDashTest(b) == DigitRun(b)

IssueNum(b) ==
    LET run == DigitRun(b) IN
    IF Len(run) >= 1 /\ Len(b) > Len(run) /\ b[Len(run) + 1] = "-"
    THEN run ELSE <<>>

\* review_prefix chosen at lines 224-236 (<<>> where the code sets none)
ReviewPrefix(env, br) ==
    CASE env = REVIEW /\ IssueNum(br) # <<>> ->
            <<"i", "s", "s", "u", "e", "-">> \o IssueNum(br) \o <<"-">>
      [] env = REVIEW /\ IssueNum(br) = <<>> ->
            <<"r", "e", "v", "i", "e", "w", "-">> \o br \o <<"-">>
      [] env = LATEST -> <<"l", "a", "t", "e", "s", "t", "-">>
      [] OTHER -> <<>>

\* version_suffix of lines 229 and 232
ReviewSuffix(br) ==
    IF IssueNum(br) # <<>>
    THEN <<"i", "s", "s", "u", "e", "-">> \o IssueNum(br)
    ELSE <<"r", "e", "v", "i", "e", "w", "-">> \o br

\* self.version of line 233
ReviewChartVersion(cur, br, hash, dts) ==
    Str(cur \o <<"-">> \o ReviewSuffix(br) \o <<"-">> \o hash \o <<".">>
        \o Format(dts))

\* self.version of line 237
LatestChartVersion_NoInfix(cur, hash, dts) ==
    Str(cur \o <<"-">> \o hash \o <<".">> \o Format(dts))

LatestChartVersion(cur, hash, dts) ==
    Str(cur \o <<"-", "l", "a", "t", "e", "s", "t", "-">> \o hash
        \o <<".">> \o Format(dts))

\* self.version after lines 224-243
ChartVersion_StableStamped(env, ver, cur, br, hash, dts) ==
    CASE env = REVIEW -> ReviewChartVersion(cur, br, hash, dts)
      [] env = LATEST -> LatestChartVersion(cur, hash, dts)
      [] OTHER -> Str(Format(ver) \o <<"-">> \o Format(dts))

ChartVersion(env, ver, cur, br, hash, dts) ==
    CASE env = REVIEW -> ReviewChartVersion(cur, br, hash, dts)
      [] env = LATEST -> LatestChartVersion(cur, hash, dts)
      [] OTHER -> ver

\* the date-timestamp _update_chart_files embeds: the attribute stored by
\* _create_tag, not a new reading of the clock
ChartSuffix_Recomputed(stored, now) == Str(DateTimestamp(now))

ChartSuffix(stored, now) == stored

\* Step 8, up to the first await and the version assignment: the chart
\* repository's main is cloned and .version read, or the read raises
update_chart_files ==
    /\ pc = "update_chart_files"
    /\ chartCalls' = chartCalls + 1
    /\ \/ /\ chartLocal' = chartRemote
          /\ current_version' = chartRemote.version
          /\ review_prefix' = ReviewPrefix(environment, branch)
          /\ version' = ChartVersion(environment, version, chartRemote.version,
                                     branch, commit_hash,
                                     ChartSuffix(current_date_timestamp,
                                                 clock))
          /\ pc' = IF environment \in {REVIEW, LATEST, STABLE}
                   THEN "apply_chart_edits" ELSE "push_helm_oci_release"
          /\ UNCHANGED failedAt
       \/ /\ Raise("update_chart_files")
          /\ UNCHANGED <<chartLocal, current_version, review_prefix, version>>
    /\ UNCHANGED <<oracle, clock, inputs, environment, semantic_release_result, tags,
                   current_date_timestamp, tagIdx, chartRemote, effects,
                   envTrace, oracleCalls, tagCalls, chartWrites, ociCalls,
                   ociOutcome>>
    /\ UNCHANGED <<twoRuns, modules>>

\* the three yq -i edits of lines 246-251
EditVersions_NoAppVersion(chart, ver) ==
    [chart EXCEPT !.version = Format(ver), !.imageTag = Format(ver)]

EditVersions(chart, ver) ==
    [chart EXCEPT !.version = Format(ver), !.appVersion = Format(ver),
                  !.imageTag = Format(ver)]

\* yq -i '.ingress.host |= "{review_prefix}" + .'
PrefixHost_Overwrite(chart, prefix) == [chart EXCEPT !.ingressHost = prefix]

PrefixHost(chart, prefix) ==
    [chart EXCEPT !.ingressHost = prefix \o chart.ingressHost]

\* f"Update {self.app_name} to version {self.version}"
CommitMessage(app, ver) ==
    <<"U", "p", "d", "a", "t", "e", " ">> \o app
        \o <<" ", "t", "o", " ", "v", "e", "r", "s", "i", "o", "n", " ">>
        \o Format(ver)

\* the tests of lines 254 and 265 for the three environments that reach the
\* edits: LATEST and REVIEW prefix the host and return, only STABLE goes on
\* to _commit_and_push_changes
ReturnsBeforeCommit_Never(env) == FALSE

ReturnsBeforeCommit(env) == env \in {LATEST, REVIEW}

\* Step 8, the container pipeline evaluated by the second await: the edits
\* run in the helm container; only STABLE goes on to commit and push to main
apply_chart_edits ==
    /\ pc = "apply_chart_edits"
    /\ \/ /\ ReturnsBeforeCommit(environment)
          /\ chartLocal' = PrefixHost(EditVersions(chartLocal, version),
                                      review_prefix)
          /\ chartWrites' = chartWrites \o
                <<"version", "appVersion", "image.tag", "ingress.host">>
          /\ pc' = "push_helm_oci_release"
          /\ UNCHANGED <<chartRemote, pushes, failedAt>>
       \/ /\ ~ReturnsBeforeCommit(environment)
          /\ chartLocal' = EditVersions(chartLocal, version)
          /\ chartWrites' = chartWrites \o
                <<"version", "appVersion", "image.tag">>
          /\ chartRemote' = chartLocal'
          /\ pushes' = Append(pushes,
                [ref |-> MAIN_BRANCH,
                 message |-> CommitMessage(app_name, version),
                 chart |-> chartLocal'])
          /\ pc' = "push_helm_oci_release"
          /\ UNCHANGED failedAt
       \/ /\ Raise("update_chart_files")
          /\ UNCHANGED <<chartState, pushes, chartWrites>>
    /\ UNCHANGED <<oracle, clock, inputs, fields, locals, published, envTrace,
                   oracleCalls, tagCalls, chartCalls, ociCalls,
                   ociOutcome>>
    /\ UNCHANGED <<twoRuns, modules>>

\* HelmOciRelease.run: the helm steps run inside try/except Exception, which
\* prints the error; the function returns None whether or not a step failed
HelmSteps == {"helm_login", "helm_package", "helm_push"}

HelmOciReleaseRun(failing) ==
    IF failing = "none" THEN "pushed" ELSE failing

\* Step 9: dag.helm_oci_release().run(...), called in every environment; the
\* call itself raises, or HelmOciRelease.run returns
push_helm_oci_release ==
    /\ pc = "push_helm_oci_release"
    /\ ociCalls' = ociCalls + 1
    /\ \/ \E failing \in HelmSteps \cup {"none"} :
             /\ ociOutcome' = HelmOciReleaseRun(failing)
             /\ pc' = "done"
             /\ UNCHANGED failedAt
       \/ /\ Raise("push_helm_oci_release")
          /\ ociOutcome' = "raised"
    /\ UNCHANGED <<oracle, clock, inputs, fields, locals, chartState, effects,
                   envTrace, oracleCalls, tagCalls, chartCalls, chartWrites>>
    /\ UNCHANGED <<twoRuns, modules>>

Next ==
    \/ Tick
    \/ Run
    \/ unit_tests
    \/ check_if_ci
    \/ build_docker_image
    \/ check_if_review
    \/ run_semantic_release
    \/ create_tag
    \/ publish_docker_image
    \/ publish_tag
    \/ publish_done
    \/ update_chart_files
    \/ apply_chart_edits
    \/ push_helm_oci_release

Spec == Init /\ [][Next]_vars

\* ------------------------------------------------------- vocabulary
TerminalStates == {LOCAL_ENV, REVIEW, LATEST, STABLE}
TransitionalStates == {NONE, CI, LATEST_OR_STABLE}

\* order of the steps of run()
StepRank(step) ==
    CASE step = "init" -> 0
      [] step = "unit_tests" -> 1
      [] step = "check_if_ci" -> 2
      [] step = "build_docker_image" -> 3
      [] step = "check_if_review" -> 4
      [] step = "run_semantic_release" -> 5
      [] step = "create_tag" -> 6
      [] step = "publish_docker_image" -> 7
      [] step = "publish_tag" -> 8
      [] step = "update_chart_files" -> 9
      [] step = "apply_chart_edits" -> 10
      [] step = "push_helm_oci_release" -> 11
      [] OTHER -> 12

\* the step the run is at, or was at when it raised
Position == IF pc = "failed" THEN failedAt ELSE pc
\* step has run to completion in this run
Completed(step) == StepRank(Position) > StepRank(step)

NoCredential == pc # "init" /\ github_token = "None"
HasCredential == pc # "init" /\ github_token # "None"

\* the oracle returned a JSON object holding both keys
WellFormed(out) == out.kind = "object" /\ out.keys = OracleKeys

\* nothing was tagged, published, or written, committed or pushed to a chart
NoTagNoPublishNoChart ==
    /\ tagCalls = 0 /\ tags = NoTags
    /\ published = <<>>
    /\ chartCalls = 0 /\ chartWrites = <<>> /\ pushes = <<>>

EnvRank(e) ==
    CASE e = NONE -> 0
      [] e \in {CI, LOCAL_ENV} -> 1
      [] e \in {REVIEW, LATEST_OR_STABLE} -> 2
      [] OTHER -> 3

\* the terminal values self.environment was assigned during the run
TerminalsReached ==
    { envTrace[i] : i \in { j \in DOMAIN envTrace :
                              envTrace[j] \in TerminalStates } }

\* -------------------------------------------------------------- claims

\* C1: in a run without github_token the environment is Local once step 2
\* has classified it and stays Local, whatever the branch; the oracle step
\* of classification does not run.
C1_NoCredentialStaysLocal ==
    (NoCredential /\ Completed("check_if_ci"))
        => (environment = LOCAL_ENV /\ oracleCalls = 0)

\* C2: the oracle is called, and Stable/Latest are reached, only when the
\* branch is main and a credential is present.
C2_OracleOnlyOnMainWithCredential ==
    (oracleCalls > 0 \/ environment \in {STABLE, LATEST})
        => (branch = MAIN_BRANCH /\ github_token # "None")

\* C3: in a run without credential the tag set is the empty list and no
\* version resolution, image publish, chart edit, commit or push happens.
C3_LocalRunHasNoEffects ==
    NoCredential =>
        /\ Completed("create_tag") => tags = List(<<>>)
        /\ oracleCalls = 0
        /\ published = <<>>
        /\ chartCalls = 0 /\ chartWrites = <<>> /\ pushes = <<>>

\* C4: with a credential and a branch other than main, the environment is
\* Review from the branch check on, and the run never holds Stable, Latest
\* or LatestOrStable.
C4_CredentialNonMainIsReview ==
    (HasCredential /\ branch # MAIN_BRANCH) =>
        /\ Completed("check_if_review") => environment = REVIEW
        /\ \A i \in DOMAIN envTrace :
              envTrace[i] \notin {STABLE, LATEST, LATEST_OR_STABLE}
        /\ oracleCalls = 0

C4_Witness ==
    /\ HasCredential /\ branch # MAIN_BRANCH
    /\ pc = "done" /\ environment = REVIEW

C6_MissingKeyIsFatal ==
    (oracle.kind = "object" /\ oracle.keys # OracleKeys) =>
        /\ pc = "failed" /\ failedAt = "run_semantic_release"
        /\ NoTagNoPublishNoChart

\* C7: when the oracle call raises or returns text that is not JSON, the
\* run aborts in version resolution: no tag generation, publish, chart
\* update or Helm OCI push executes.
C7_OracleFailureAborts ==
    oracle.kind \in {"raise", "text"} =>
        /\ pc = "failed" /\ failedAt = "run_semantic_release"
        /\ NoTagNoPublishNoChart
        /\ ociCalls = 0

C7_Witness ==
    /\ oracle.kind = "text" /\ pc = "failed"
    /\ semantic_release_result.stage = "raw"

\* C8: the environment only advances (None, then CI/Local, then
\* Review/LatestOrStable, then Stable/Latest), and a terminal value is never
\* replaced by another value.
C8_EnvironmentMonotonic ==
    [][environment' # environment =>
          /\ environment \notin TerminalStates
          /\ EnvRank(environment') > EnvRank(environment)]_vars

\* C9: tags are generated, images published and chart fields written only
\* while the environment is terminal, and a run reaches exactly one terminal
\* state (at most one at any point, one when it completes).
C9_OneTerminalState ==
    /\ (tagCalls > 0 \/ published # <<>> \/ chartWrites # <<>>)
          => environment \in TerminalStates
    /\ Cardinality(TerminalsReached) <= 1
    /\ pc = "done" => Cardinality(TerminalsReached) = 1

\* C10: in a Stable run the tag set is exactly
\* [next_release, "stable", "latest"], in that order.
C10_StableTags ==
    (environment = STABLE /\ Completed("create_tag")) =>
        tags = List(<<oracle.next, Str(<<"s", "t", "a", "b", "l", "e">>),
                      Str(<<"l", "a", "t", "e", "s", "t">>)>>)

C10_Witness ==
    /\ environment = STABLE /\ pc = "done"
    /\ Len(tags.l) = 3 /\ tags.l[1] = Str(<<"1", ".", "3", ".", "0">>)
    /\ Len(published) = 3

\* text of the words used in tags and chart values
TxtStable == <<"s", "t", "a", "b", "l", "e">>
TxtLatest == <<"l", "a", "t", "e", "s", "t">>
TxtReview == <<"r", "e", "v", "i", "e", "w">>
TxtIssue == <<"i", "s", "s", "u", "e">>
Dash == <<"-">>
Dot == <<".">>

\* suf is "{date}.{unix_timestamp}" of a clock reading of this run
IsRunTimestamp(suf) ==
    \E t \in StartClock..clock :
        suf = StrfDate(t) \o Dot \o IntToStr(t)

\* C11: in a Latest run the tag set is exactly
\* ["{last_release}-{commit_hash}.{date}.{unix_timestamp}", "latest"].
C11_LatestTags ==
    (environment = LATEST /\ tagCalls > 0) =>
        /\ tags = List(<<Str(Format(oracle.last) \o Dash \o commit_hash
                             \o Dot \o current_date_timestamp.s),
                         Str(TxtLatest)>>)
        /\ IsRunTimestamp(current_date_timestamp.s)

C11_Witness ==
    /\ environment = LATEST /\ pc = "done"
    /\ oracle.last = Str(<<"1", ".", "2", ".", "3">>)
    /\ Len(tags.l) = 2 /\ Len(published) = 2
    /\ tags.l[1].s = <<"1", ".", "2", ".", "3", "-", "a", "b", "c", "1", "2",
                       "3", ".">> \o StrfDate(StartClock) \o Dot
                           \o IntToStr(StartClock)

\* C12: in a Review run the tag set is the single tag
\* "review-{branch}-{commit_hash}.{date}.{unix_timestamp}", and neither
\* "stable" nor "latest" is emitted or published.
C12_ReviewTags ==
    (environment = REVIEW /\ tagCalls > 0) =>
        /\ tags = List(<<Str(TxtReview \o Dash \o branch \o Dash
                             \o commit_hash \o Dot
                             \o current_date_timestamp.s)>>)
        /\ IsRunTimestamp(current_date_timestamp.s)
        /\ \A i \in DOMAIN published :
              /\ published[i] = registry_path \o <<":">> \o tags.l[1].s
              /\ published[i] # registry_path \o <<":">> \o TxtStable
              /\ published[i] # registry_path \o <<":">> \o TxtLatest

C12_Witness ==
    /\ environment = REVIEW /\ pc = "done" /\ github_token # "None"
    /\ branch = <<"f", "e", "a", "t", "u", "r", "e", "-", "a">>
    /\ Len(tags.l) = 1 /\ Len(published) = 1

\* characters a container registry accepts in a tag
TagChars ==
    {"a", "b", "c", "d", "e", "f", "g", "h", "i", "j", "k", "l", "m", "n",
     "o", "p", "q", "r", "s", "t", "u", "v", "w", "x", "y", "z",
     "A", "B", "C", "D", "E", "F", "G", "H", "I", "J", "K", "L", "M", "N",
     "O", "P", "Q", "R", "S", "T", "U", "V", "W", "X", "Y", "Z",
     "0", "1", "2", "3", "4", "5", "6", "7", "8", "9", "_", ".", "-"}

IsRegistryTag(txt) == \A i \in DOMAIN txt : txt[i] \in TagChars

\* the tag of a published reference "{registry_path}:{tag}"
TagOfRef(ref) == SubSeq(ref, Len(registry_path) + 2, Len(ref))

\* C13: every tag generated for publishing, and every tag published, is made
\* of characters in [a-zA-Z0-9_.-] only; a "/" of the branch never reaches it.
\* Stated on runs that hold a credential, the runs meant to publish.
C13_TagsAreRegistrySafe ==
    HasCredential =>
        /\ \A i \in DOMAIN tags.l : IsRegistryTag(Format(tags.l[i]))
        /\ \A i \in DOMAIN published : IsRegistryTag(TagOfRef(published[i]))

\* _create_tag applied to a pipeline object in any environment, followed by
\* the publish step: the tag generator taken on its own
InitTag ==
    /\ pc = "create_tag"
    /\ clock = StartClock
    /\ github_token \in Tokens /\ branch \in Branches
    /\ commit_hash \in CommitHashes /\ registry_path \in RegistryPaths
    /\ app_name \in AppNames
    /\ environment \in Environment
    /\ version \in {None} \cup (NextValues \ {Str(<<>>)})
    /\ semantic_release_result = NoResult
    /\ tags = NoTags
    /\ current_date_timestamp = None
    /\ tagIdx = 0 /\ current_version = <<>> /\ review_prefix = <<>>
    /\ chartRemote \in { [present |-> TRUE, version |-> v, appVersion |-> v,
                          imageTag |-> v, ingressHost |-> h] :
                            v \in ChartVersions, h \in IngressHosts }
    /\ chartLocal = NoChart
    /\ published = <<>> /\ pushes = <<>>
    /\ envTrace = <<environment>>
    /\ oracle = NoOutput
    /\ oracleCalls = 0 /\ tagCalls = 0 /\ chartCalls = 0 /\ chartWrites = <<>>
    /\ ociCalls = 0
    /\ ociOutcome = "none"
    /\ failedAt = "none"
    /\ store = InitStore
    /\ conc = InitConc
    /\ ModulesIdle

NextTag ==
    \/ Tick
    \/ create_tag
    \/ publish_docker_image
    \/ publish_tag
    \/ publish_done

SpecTag == InitTag /\ [][NextTag]_vars

\* C14: tag generation in a transitional or uninitialized environment (None,
\* CI, LatestOrStable) is rejected: it never completes normally and the
\* pipeline does not go on to the publish step.
C14_TransitionalTagGenerationRejected ==
    environment \in TransitionalStates =>
        /\ tagCalls = 0
        /\ pc \in {"create_tag", "failed"}
        /\ pc = "failed" => failedAt = "create_tag"

\* the trailing "{date}.{unix_timestamp}" of a tag or chart version
SuffixLen == Len(DateTimestamp(StartClock))
Suffix(txt) == SubSeq(txt, Len(txt) - SuffixLen + 1, Len(txt))

\* C15: in a Latest or Review run the date-timestamp suffix of the primary
\* image tag and of the chart's new version are the same, one clock reading
\* of the run, whatever the clock shows when the chart is updated.
C15_OneTimestampPerRun ==
    (environment \in {LATEST, REVIEW} /\ chartLocal.present) =>
        /\ Suffix(tags.l[1].s) = Suffix(version.s)
        /\ IsRunTimestamp(Suffix(version.s))

C15_Witness ==
    /\ environment = REVIEW /\ pc = "apply_chart_edits"
    /\ clock > StartClock
    /\ Suffix(tags.l[1].s) = DateTimestamp(StartClock)
    /\ Suffix(version.s) = DateTimestamp(StartClock)

\* C16: in a Stable run the chart edits set Chart.yaml version and
\* appVersion and values image.tag to the oracle's next_release as it is;
\* no host prefix is applied and nothing else is written.
C16_StableChartMutation ==
    (environment = STABLE /\ chartWrites # <<>>) =>
        /\ chartLocal.version = oracle.next.s
        /\ chartLocal.appVersion = oracle.next.s
        /\ chartLocal.imageTag = oracle.next.s
        /\ chartLocal.ingressHost \in IngressHosts
        /\ review_prefix = <<>>
        /\ chartWrites = <<"version", "appVersion", "image.tag">>

C16_Witness ==
    /\ environment = STABLE /\ pc = "done" /\ Len(pushes) = 1
    /\ oracle.next = Str(<<"1", ".", "3", ".", "0">>)
    /\ chartLocal.appVersion = <<"1", ".", "3", ".", "0">>
    /\ pushes[1].chart = chartLocal

\* C17: in a Latest run the chart's new version is
\* "{current_chart_version}-latest-{commit_hash}.{date_timestamp}", built on
\* the version read from the chart repository in this run, and the host
\* prefix is "latest-".
C17_LatestChartVersion ==
    (environment = LATEST /\ chartLocal.present) =>
        /\ current_version = chartRemote.version
        /\ version = Str(chartRemote.version \o Dash \o TxtLatest \o Dash
                         \o commit_hash \o Dot \o current_date_timestamp.s)
        /\ review_prefix = TxtLatest \o Dash
        /\ chartWrites # <<>> =>
              /\ chartLocal.version = version.s
              /\ chartLocal.ingressHost =
                    TxtLatest \o Dash \o chartRemote.ingressHost

C17_Witness ==
    /\ environment = LATEST /\ pc = "done" /\ chartWrites # <<>>
    /\ chartRemote.version = <<"0", ".", "2", ".", "0">>
    /\ chartLocal.version =
          <<"0", ".", "2", ".", "0", "-", "l", "a", "t", "e", "s", "t", "-",
            "a", "b", "c", "1", "2", "3", ".">> \o current_date_timestamp.s

\* the first n characters of b are digits and the next one is "-"
HasIssuePrefix(b, n) ==
    /\ n \in 1..(Len(b) - 1)
    /\ \A i \in 1..n : IsDigit(b[i])
    /\ b[n + 1] = "-"

\* the suffix the claim prescribes for a Review branch
PrescribedReviewSuffix(b) ==
    IF \E n \in 1..Len(b) : HasIssuePrefix(b, n)
    THEN TxtIssue \o Dash
            \o SubSeq(b, 1, CHOOSE n \in 1..Len(b) : HasIssuePrefix(b, n))
    ELSE TxtReview \o Dash \o b

\* C18: in a Review run, a branch starting with digits N followed by "-"
\* gives suffix "issue-N" and host prefix "issue-N-"; any other branch gives
\* "review-{branch}" and "review-{branch}-"; the new version is
\* "{current_chart_version}-{suffix}-{commit_hash}.{date_timestamp}".
C18_ReviewChartVersion ==
    (environment = REVIEW /\ chartLocal.present) =>
        /\ review_prefix = PrescribedReviewSuffix(branch) \o Dash
        /\ version = Str(chartRemote.version \o Dash
                         \o PrescribedReviewSuffix(branch) \o Dash
                         \o commit_hash \o Dot \o current_date_timestamp.s)

C18_Witness ==
    /\ environment = REVIEW /\ pc = "done"
    /\ branch = <<"4", "2", "-", "f", "i", "x">>
    /\ review_prefix = <<"i", "s", "s", "u", "e", "-", "4", "2", "-">>
    /\ chartLocal.version =
          chartRemote.version \o <<"-", "i", "s", "s", "u", "e", "-", "4", "2",
                                   "-", "a", "b", "c", "1", "2", "3", ".">>
              \o current_date_timestamp.s

\* C19: ingress.host is edited only in Latest and Review runs, and the new
\* value is the host prefix followed by the whole old value; a Stable run
\* leaves ingress.host as it was.
C19_HostOnlyPrefixed ==
    chartLocal.present =>
        /\ chartRemote.ingressHost \in IngressHosts
        /\ (\E i \in DOMAIN chartWrites : chartWrites[i] = "ingress.host")
              => environment \in {LATEST, REVIEW}
        /\ IF environment \in {LATEST, REVIEW} /\ chartWrites # <<>>
           THEN /\ review_prefix # <<>>
                /\ chartLocal.ingressHost =
                      review_prefix \o chartRemote.ingressHost
           ELSE chartLocal.ingressHost = chartRemote.ingressHost

C19_Witness ==
    /\ environment = REVIEW /\ pc = "done"
    /\ branch = <<"f", "e", "a", "t", "u", "r", "e", "-", "a">>
    /\ chartLocal.ingressHost =
          <<"r", "e", "v", "i", "e", "w", "-", "f", "e", "a", "t", "u", "r",
            "e", "-", "a", "-", "a", "p", "p", ".", "x">>

\* C20: a run that has edited the chart has committed and pushed the edited
\* chart: to main in a Stable run, to the branch named by the pipeline's own
\* branch in a Latest or Review run.  Stated on runs that hold a credential.
C20_ChartMutationIsPushed ==
    (HasCredential /\ Completed("apply_chart_edits") /\ chartWrites # <<>>) =>
        \E i \in DOMAIN pushes :
            /\ pushes[i].chart = chartLocal
            /\ pushes[i].ref = (IF environment = STABLE THEN MAIN_BRANCH
                                ELSE branch)

\* no image reference was pushed twice
NoDuplicate(seq) ==
    \A i, j \in DOMAIN seq : seq[i] = seq[j] => i = j

\* C21: the stages of a run go strictly forward, and each side effect
\* happens at most once: one oracle call, one tag generation, one publish
\* per tag of the tag set, one chart update with one commit and push.
C21_AtMostOnceForward ==
    /\ [](/\ oracleCalls <= 1 /\ tagCalls <= 1 /\ chartCalls <= 1
          /\ ociCalls <= 1
          /\ Len(pushes) <= 1
          /\ Len(published) <= Len(tags.l)
          /\ NoDuplicate(published))
    /\ [][/\ StepRank(pc') >= StepRank(pc)
          /\ pc' # pc => pc # "failed"]_vars

C21_Witness ==
    /\ pc = "done" /\ environment = STABLE
    /\ oracleCalls = 1 /\ tagCalls = 1 /\ chartCalls = 1 /\ ociCalls = 1
    /\ Len(published) = 3 /\ Len(pushes) = 1

\* C22: when a publish fails, no later tag is published and neither the
\* chart update nor the Helm OCI push runs; a chart commit is pushed only
\* after every tag of the tag set has been published.
C22_PublishFailureStops ==
    /\ failedAt = "publish_docker_image" =>
          /\ pc = "failed"
          /\ Len(published) < Len(tags.l)
          /\ chartCalls = 0 /\ chartWrites = <<>> /\ pushes = <<>>
          /\ ociCalls = 0
    /\ (chartCalls > 0 \/ pushes # <<>> \/ ociCalls > 0) =>
          /\ Len(published) = Len(tags.l)
          /\ \A i \in DOMAIN tags.l :
                published[i] = registry_path \o <<":">> \o tags.l[i].s

C22_Witness ==
    /\ pc = "failed" /\ failedAt = "publish_docker_image"
    /\ environment = STABLE /\ Len(published) = 1 /\ Len(tags.l) = 3

\* C26: once the publish step has succeeded, the references pushed are
\* exactly "{registry_path}:{tag}" for the tags of the tag set, in tag-set
\* order, the primary tag first; during the step they are a prefix of that.
C26_PublishInOrder ==
    /\ \A i \in DOMAIN published :
          /\ i <= Len(tags.l)
          /\ published[i] = registry_path \o <<":">> \o tags.l[i].s
    /\ Completed("publish_tag") => Len(published) = Len(tags.l)

C26_Witness ==
    /\ pc = "update_chart_files" /\ environment = STABLE
    /\ published = << registry_path \o <<":", "1", ".", "3", ".", "0">>,
                      registry_path \o <<":">> \o TxtStable,
                      registry_path \o <<":">> \o TxtLatest >>

\* C23: no failure is swallowed: a run in which the build, the oracle, a
\* publish, the chart update or a Helm OCI login, package or push failed
\* does not end as a completed run.  The Helm OCI part is stated on Stable
\* runs that hold a credential.
C23_NoFailureSwallowed ==
    /\ failedAt # "none" => pc = "failed"
    /\ (HasCredential /\ environment = STABLE /\ ociOutcome \in HelmSteps)
          => pc = "failed"

\* C29: the Helm OCI release step is performed only in Stable runs.
\* Stated on runs that hold a credential.
C29_OciOnlyInStable ==
    (HasCredential /\ ociCalls > 0) => environment = STABLE

\* C24: the release decision is immutable once it is made: after the
\* release step of a run whose environment is terminal, no step of the run
\* changes version or the oracle's last_release and next_release.
\* Stated on runs that hold a credential.
C24_DecisionImmutable ==
    [][(/\ HasCredential
        /\ Completed("run_semantic_release")
        /\ environment \in TerminalStates)
          => /\ version' = version
             /\ semantic_release_result' = semantic_release_result
             /\ environment' = environment]_vars

\* C25: version is non-null only in the main-branch terminal states; in a
\* Review or Local run it stays null at every point of the run.
\* Stated on runs that hold a credential.
C25_VersionOnlyOnMain ==
    HasCredential =>
       /\ environment \in {REVIEW, LOCAL_ENV, NONE, CI, LATEST_OR_STABLE}
             => version = None
       /\ version # None => environment \in {STABLE, LATEST}

\* C30: the image.tag written to values.yaml is the primary tag the same
\* run published, in Stable, Latest and Review runs alike.
\* Stated on runs that hold a credential.
C30_ImageTagIsPublishedTag ==
    (HasCredential /\ chartWrites # <<>>) =>
       /\ chartLocal.imageTag = tags.l[1].s
       /\ registry_path \o <<":">> \o chartLocal.imageTag = published[1]

\* C27: the Stable chart mutation is idempotent and independent of time:
\* planning it again for the same version on the chart it produced, at any
\* reading of the clock, yields the same Chart.yaml version and appVersion
\* and the same image.tag.
C27_StablePlanIdempotent ==
    (environment = STABLE /\ chartWrites # <<>>) =>
        \A t \in StartClock..(StartClock + MaxTicks) :
            EditVersions(chartLocal,
                         ChartVersion(STABLE, oracle.next, current_version,
                                      branch, commit_hash,
                                      Str(DateTimestamp(t))))
              = chartLocal

C27_Witness ==
    /\ environment = STABLE /\ pc = "done" /\ clock > StartClock
    /\ current_date_timestamp # Str(DateTimestamp(clock))
    /\ chartLocal.version = <<"1", ".", "3", ".", "0">>
    /\ chartLocal.version # current_version

\* ------------------------------------------ two runs, interleaved
\* Python attribute access on object i: self.f reads the object's own
\* attribute, or the class attribute when the object has none; self.f = v
\* always writes the object's own attribute
Read(st, i, f) ==
    IF f \in DOMAIN st.inst[i] THEN st.inst[i][f] ELSE st.class[f]

Write_ToClass(st, i, upd) ==
    [st EXCEPT !.class = [f \in DOMAIN upd \cup DOMAIN @ |->
                              IF f \in DOMAIN upd THEN upd[f] ELSE @[f]]]

Write(st, i, upd) ==
    [st EXCEPT !.inst[i] = [f \in DOMAIN upd \cup DOMAIN @ |->
                                IF f \in DOMAIN upd THEN upd[f] ELSE @[f]]]

\* the parameters and oracle results the two runs draw from: the main
\* branch and an issue branch; the oracle raising, announcing a release,
\* announcing none, and knowing no release at all
TwoBranches == {MAIN_BRANCH, <<"4", "2", "-", "f", "i", "x">>}
TwoOracleOutputs ==
    {o \in OracleOutputs :
        \/ o.kind = "raise"
        \/ /\ o.kind = "object" /\ o.keys = OracleKeys
           /\ o.last # Str(<<>>) /\ o.next # Str(<<>>)
           /\ (o.last = None => o.next = None)}

\* what a run of one object alone leaves untouched
oneRun == <<pc, inputs, fields, locals, chartLocal, effects, envTrace,
            counters, oracle, failedAt, modules>>

two_tick ==
    /\ \E i \in RunIds : conc[i].pc \notin {"init", "done", "failed"}
    /\ clock < StartClock + MaxTicks
    /\ clock' = clock + 1
    /\ UNCHANGED <<twoRuns, chartRemote, oneRun>>

\* run(): store the parameters
two_run(i) ==
    /\ conc[i].pc = "init"
    /\ \E t \in Tokens, b \in TwoBranches, h \in CommitHashes :
          /\ store' = Write(store, i, [github_token |-> t, branch |-> b,
                                       commit_hash |-> h])
          /\ conc' = [conc EXCEPT ![i].pc = "check_if_ci",
                                  ![i].github_token = t, ![i].branch = b,
                                  ![i].commit_hash = h]
    /\ UNCHANGED <<clock, chartRemote, oneRun>>

\* Step 2
two_check_if_ci(i) ==
    /\ conc[i].pc = "check_if_ci"
    /\ store' = Write(store, i,
          [environment |-> CheckIfCiEnv(Read(store, i, "github_token"))])
    /\ conc' = [conc EXCEPT ![i].pc = "check_if_review"]
    /\ UNCHANGED <<clock, chartRemote, oneRun>>

\* Step 4
two_check_if_review(i) ==
    /\ conc[i].pc = "check_if_review"
    /\ store' = Write(store, i,
          [environment |-> CheckIfReviewEnv(Read(store, i, "branch"))])
    /\ conc' = [conc EXCEPT ![i].pc = "run_semantic_release"]
    /\ UNCHANGED <<clock, chartRemote, oneRun>>

\* Step 5
two_run_semantic_release(i) ==
    /\ conc[i].pc = "run_semantic_release"
    /\ IF Read(store, i, "environment") = LATEST_OR_STABLE
       THEN \E out \in TwoOracleOutputs :
              LET r == ReleaseOutcome(out)
                  w1 == IF r.stage = "none" THEN store
                        ELSE Write(store, i,
                                   [semantic_release_result |->
                                       [stage |-> r.stage, out |-> out]])
                  w2 == IF r.assigned
                        THEN Write(w1, i, [environment |-> r.env]) ELSE w1
                  w3 == IF r.error = "none"
                        THEN Write(w2, i, [version |-> r.version]) ELSE w2
              IN
              /\ store' = w3
              /\ conc' = [conc EXCEPT
                            ![i].out = out,
                            ![i].pc = IF r.error = "none" THEN "create_tag"
                                      ELSE "failed"]
       ELSE /\ conc' = [conc EXCEPT ![i].pc = "create_tag"]
            /\ UNCHANGED store
    /\ UNCHANGED <<clock, chartRemote, oneRun>>

\* Step 6
two_create_tag(i) ==
    /\ conc[i].pc = "create_tag"
    /\ LET env == Read(store, i, "environment")
           dts == DateTimestamp(clock)
           w1 == Write(store, i, [current_date_timestamp |-> Str(dts)])
       IN
       store' = IF env \in {STABLE, LATEST, REVIEW}
                THEN Write(w1, i,
                       [tags |-> CreateTagTags(env, Read(store, i, "version"),
                                     Read(store, i, "commit_hash"),
                                     Read(store, i, "branch"), dts,
                                     Read(store, i, "tags"))])
                ELSE w1
    /\ conc' = [conc EXCEPT ![i].pc = "publish_docker_image",
                            ![i].tagClock = clock]
    /\ UNCHANGED <<clock, chartRemote, oneRun>>

\* Step 7, which assigns no attribute: it raises on self.tags = None, and
\* otherwise publishes every tag or raises
two_publish_docker_image(i) ==
    /\ conc[i].pc = "publish_docker_image"
    /\ IF Read(store, i, "tags").t = "none"
       THEN conc' = [conc EXCEPT ![i].pc = "failed"]
       ELSE \E next \in {"update_chart_files", "failed"} :
               conc' = [conc EXCEPT ![i].pc = next]
    /\ UNCHANGED <<store, clock, chartRemote, oneRun>>

\* Step 8: the chart repository is read, self.version is assigned in Review
\* and Latest, and a Stable run pushes its edits to the shared repository;
\* step 9 assigns nothing
two_update_chart_files(i) ==
    /\ conc[i].pc = "update_chart_files"
    /\ \/ LET env == Read(store, i, "environment")
              ver == ChartVersion(env, Read(store, i, "version"),
                        chartRemote.version, Read(store, i, "branch"),
                        Read(store, i, "commit_hash"),
                        ChartSuffix(Read(store, i, "current_date_timestamp"),
                                    clock))
          IN
          /\ store' = IF env \in {REVIEW, LATEST}
                      THEN Write(store, i, [version |-> ver]) ELSE store
          /\ chartRemote' = IF env = STABLE
                            THEN EditVersions(chartRemote,
                                              Read(store, i, "version"))
                            ELSE chartRemote
          /\ conc' = [conc EXCEPT ![i].pc = "done",
                                  ![i].cur = chartRemote.version]
       \/ /\ conc' = [conc EXCEPT ![i].pc = "failed"]
          /\ UNCHANGED <<store, chartRemote>>
    /\ UNCHANGED <<clock, oneRun>>

NextTwo ==
    \/ two_tick
    \/ \E i \in RunIds :
          \/ two_run(i)
          \/ two_check_if_ci(i)
          \/ two_check_if_review(i)
          \/ two_run_semantic_release(i)
          \/ two_create_tag(i)
          \/ two_publish_docker_image(i)
          \/ two_update_chart_files(i)

SpecTwo == Init /\ [][NextTwo]_vars

\* the four attributes of object i as a later statement of its run reads them
Observed(i) ==
    [environment |-> Read(store, i, "environment"),
     version |-> Read(store, i, "version"),
     tags |-> Read(store, i, "tags"),
     current_date_timestamp |->
        IF "current_date_timestamp" \in DOMAIN store.inst[i]
        THEN store.inst[i]["current_date_timestamp"] ELSE None]

\* the same four values worked out from the run's own parameters, its own
\* oracle result, and its own readings of the clock and the chart repository
Solo(c) ==
    LET early == c.pc \in {"init", "check_if_ci", "check_if_review",
                           "run_semantic_release"}
        tagged == c.pc \in {"publish_docker_image", "update_chart_files",
                            "done"}
        env == CASE c.pc \in {"init", "check_if_ci"} -> NONE
                 [] c.pc = "check_if_review" ->
                       IF c.github_token # "None" THEN CI ELSE LOCAL_ENV
                 [] c.pc = "run_semantic_release" \/ c.branch # MAIN_BRANCH ->
                       IF c.branch = MAIN_BRANCH THEN LATEST_OR_STABLE
                       ELSE REVIEW
                 [] OTHER -> IF Truthy(c.out.next) THEN STABLE ELSE LATEST
        released == CASE early \/ c.branch # MAIN_BRANCH -> None
                      [] OTHER -> IF env = STABLE THEN c.out.next
                                  ELSE c.out.last
        dts == DateTimestamp(c.tagClock)
    IN
    [environment |-> env,
     version |-> IF c.pc = "done"
                 THEN ChartVersion(env, released, c.cur, c.branch,
                                   c.commit_hash, Str(dts))
                 ELSE released,
     tags |-> IF tagged
              THEN CreateTagTags(env, released, c.commit_hash, c.branch,
                                 dts, NoTags)
              ELSE NoTags,
     current_date_timestamp |-> IF tagged THEN Str(dts) ELSE None]

\* C28: two runs interleaved in any order share no mutable pipeline state:
\* the class attributes are never assigned, and at every point each run's
\* environment, version, tags and date-timestamp are what its own
\* parameters, oracle result and readings determine.
C28_RunsShareNoState ==
    /\ store.class = ClassAttributes
    /\ \A i \in RunIds :
          conc[i].pc \notin {"init", "failed"} =>
             /\ Read(store, i, "github_token") = conc[i].github_token
             /\ Read(store, i, "branch") = conc[i].branch
             /\ Read(store, i, "commit_hash") = conc[i].commit_hash
             /\ Observed(i) = Solo(conc[i])

C28_Witness ==
    /\ conc[1].pc = "done" /\ conc[2].pc = "update_chart_files"
    /\ Read(store, 1, "environment") = STABLE
    /\ Read(store, 2, "environment") = REVIEW
    /\ conc[1].tagClock # conc[2].tagClock
    /\ Read(store, 1, "tags") # Read(store, 2, "tags")

\* C31: a run that reaches Stable or Latest has a non-null, non-empty
\* version, so that no primary tag is published from a null version; an
\* oracle result with both releases null does not lead to a published tag.
\* Stated on runs that hold a credential, before the chart step.
C31_ReleaseVersionIsSet ==
    (/\ HasCredential
     /\ environment \in {STABLE, LATEST}
     /\ published # <<>>
     /\ chartCalls = 0)
        => /\ version # None
           /\ version.s # <<>>

\* C32: the chart repository's main branch is committed to and pushed only
\* by Stable runs; a Review, Latest or Local run leaves the repository as
\* it found it.
C32_OnlyStablePushesChart ==
    /\ pushes # <<>> =>
          /\ environment = STABLE
          /\ \A i \in DOMAIN pushes : pushes[i].ref = MAIN_BRANCH
    /\ environment # STABLE =>
          /\ pushes = <<>>
          /\ chartLocal.present => chartRemote.version = current_version

C32_Witness ==
    /\ HasCredential /\ environment \in {REVIEW, LATEST}
    /\ pc = "push_helm_oci_release"
    /\ chartWrites # <<>> /\ chartLocal.version # chartRemote.version
    /\ pushes = <<>>

\* C33: in a run started through run(), whenever the publish step executes
\* tags is a non-empty list, never None, with or without a credential, on
\* any branch and for any oracle result that lets the earlier steps finish.
C33_PublishSeesTags ==
    (tagCalls > 0 \/ pc \in {"publish_docker_image", "publish_tag"}) =>
        /\ tags.t = "list"
        /\ Len(tags.l) >= 1

C33_Witness ==
    /\ NoCredential /\ branch # MAIN_BRANCH
    /\ pc = "publish_tag" /\ tagIdx = 1
    /\ tags.t = "list" /\ Len(tags.l) = 1

\* ------------------------------------------------ the other modules
\* the pipeline manager's variables while another module is being called
pipeline == <<pc, clock, inputs, fields, locals, chartState, effects,
              envTrace, counters, oracle, failedAt, twoRuns>>

RunIdle ==
    /\ pc = "init"
    /\ clock = StartClock
    /\ github_token = "None" /\ branch = <<>> /\ commit_hash = <<>>
    /\ registry_path = <<>> /\ app_name = <<>>
    /\ environment = NONE
    /\ semantic_release_result = NoResult
    /\ version = None
    /\ tags = NoTags
    /\ current_date_timestamp = None
    /\ tagIdx = 0 /\ current_version = <<>> /\ review_prefix = <<>>
    /\ chartRemote = NoChart /\ chartLocal = NoChart
    /\ published = <<>> /\ pushes = <<>>
    /\ envTrace = <<NONE>>
    /\ oracle = NoOutput
    /\ oracleCalls = 0 /\ tagCalls = 0 /\ chartCalls = 0 /\ chartWrites = <<>>
    /\ ociCalls = 0
    /\ ociOutcome = "none"
    /\ failedAt = "none"
    /\ store = InitStore
    /\ conc = InitConc

\* str.startswith
StartsWith(str, prefix) ==
    /\ Len(prefix) <= Len(str)
    /\ SubSeq(str, 1, Len(prefix)) = prefix

\* ----------------------------------- DetermineEnvironment.getenv
\* a text handed to json.loads, by what it parses to: not JSON at all (the
\* empty text included), a JSON value that is no object, or an object
NoMap == [branches |-> <<>>, default |-> ""]
BadTexts ==
    { [kind |-> k, map |-> NoMap] :
          k \in {"empty", "invalid", "null", "array", "string"} }

\* branch data: the "prefixes" list, the value stored under each prefix, and
\* "default"
PrefixF == <<"f">>
PrefixFi == <<"f", "i">>
BranchData(prefixes) ==
    [prefixes |-> prefixes,
     of |-> [p \in {PrefixF, PrefixFi, <<>>} |->
                CASE p = PrefixF -> "latest"
                  [] p = PrefixFi -> "stable"
                  [] OTHER -> "any"],
     default |-> "review"]
PrefixLists ==
    { <<>>, <<PrefixF>>, <<PrefixF, PrefixFi>>, <<PrefixFi, PrefixF>>,
      <<PrefixFi, <<>>, PrefixF>> }
DevBranch == <<"d", "e", "v">>
EnvMaps ==
    { [branches |-> [b \in bs |-> BranchData(ps)], default |-> "none"] :
          bs \in { {MAIN_BRANCH}, {MAIN_BRANCH, DevBranch} },
          ps \in PrefixLists }
EnvMapTexts == BadTexts \cup { [kind |-> "object", map |-> m] : m \in EnvMaps }

\* json.loads, then isinstance(value, dict)
MapLoads(text) ==
    CASE text.kind \in {"empty", "invalid"} ->
            [error |-> "JSONDecodeError", map |-> NoMap]
      [] text.kind \in {"null", "array", "string"} ->
            [error |-> "NotADict", map |-> NoMap]
      [] OTHER -> [error |-> "none", map |-> text.map]

\* the for loop of lines 38-40: the index of the prefix it returns on, or 0
\* when it runs to the end
RECURSIVE ScanFrom(_, _, _)
ScanFrom(prefixes, i, message) ==
    IF i > Len(prefixes) THEN 0
    ELSE IF StartsWith(message, prefixes[i]) THEN i
    ELSE ScanFrom(prefixes, i + 1, message)

PrefixScan_LastMatch(prefixes, message) ==
    LET hits == {i \in DOMAIN prefixes : StartsWith(message, prefixes[i])}
    IN IF hits = {} THEN 0
       ELSE CHOOSE i \in hits : \A j \in hits : j <= i

PrefixScan(prefixes, message) == ScanFrom(prefixes, 1, message)

\* _determine_environment
DetermineEnvironmentOf(env_map, br, message) ==
    IF br \in DOMAIN env_map.branches
    THEN LET branch_data == env_map.branches[br]
             k == PrefixScan(branch_data.prefixes, message)
         IN IF k = 0 THEN branch_data.default
            ELSE branch_data.of[branch_data.prefixes[k]]
    ELSE env_map.default

\* "if mapstring:" of line 64
UsesMapString_IsNotNone(ms) == ms.t # "none"

UsesMapString(ms) == ms.t # "none" /\ ms.text.kind # "empty"

CommitMessages ==
    { <<>>, <<"f">>, <<"f", "i", "x">>, <<"x", "f", "i">> }
NoText == [kind |-> "empty", map |-> NoMap]
MapStrings ==
    { [t |-> "none", text |-> NoText] }
       \cup { [t |-> "str", text |-> x] : x \in EnvMapTexts }
\* the mapfile argument, and what the file of that name holds if it exists
MapFiles == { "None", "", "env_map.json" }
FileContents ==
    { [exists |-> FALSE, text |-> NoText] }
       \cup { [exists |-> TRUE, text |-> x] : x \in EnvMapTexts }

InitEnv ==
    /\ RunIdle
    /\ tagMod = NoCall /\ chartUp = NoCall /\ semRel = NoCall
    /\ detEnv \in
         [pc : {"getenv"},
          branch : {None, Str(<<>>), Str(MAIN_BRANCH), Str(DevBranch)},
          head : {MAIN_BRANCH, <<"t", "m", "p">>},
          message : CommitMessages,
          mapstring : MapStrings,
          mapfile : MapFiles,
          file : FileContents,
          current_branch : {<<>>},
          env_map : {NoMap},
          result : {"unset"},
          error : {"none"}]

\* lines 54-62: the branch argument or else HEAD, and the last commit
\* message; a git command that fails raises
getenv_branch ==
    /\ detEnv.pc = "getenv"
    /\ \/ detEnv' = [detEnv EXCEPT
                       !.pc = "load_map",
                       !.current_branch = IF Truthy(detEnv.branch)
                                          THEN detEnv.branch.s
                                          ELSE detEnv.head]
       \/ detEnv' = [detEnv EXCEPT !.pc = "raised", !.error = "QueryError"]
    /\ UNCHANGED <<pipeline, tagMod, chartUp, semRel>>

\* lines 64-77: the map from mapstring, else from the file, else an error
getenv_load_map ==
    /\ detEnv.pc = "load_map"
    /\ LET fail == [detEnv EXCEPT !.pc = "raised", !.error = "QueryError"]
           Loaded(text) ==
               IF MapLoads(text).error = "none"
               THEN [detEnv EXCEPT !.pc = "determine",
                                   !.env_map = MapLoads(text).map]
               ELSE fail
       IN
       detEnv' =
          IF UsesMapString(detEnv.mapstring)
          THEN Loaded(detEnv.mapstring.text)
          ELSE IF detEnv.mapfile \notin {"None", ""}
               THEN IF detEnv.file.exists THEN Loaded(detEnv.file.text)
                    ELSE fail
               ELSE fail
    /\ UNCHANGED <<pipeline, tagMod, chartUp, semRel>>

\* line 80
getenv_determine ==
    /\ detEnv.pc = "determine"
    /\ detEnv' = [detEnv EXCEPT
                    !.pc = "returned",
                    !.result = DetermineEnvironmentOf(detEnv.env_map,
                                  detEnv.current_branch, detEnv.message)]
    /\ UNCHANGED <<pipeline, tagMod, chartUp, semRel>>

NextEnv ==
    \/ getenv_branch
    \/ getenv_load_map
    \/ getenv_determine

SpecEnv == InitEnv /\ [][NextEnv]_vars

\* C34: _determine_environment, for a branch that is a key of
\* env_map.branches, returns the value stored under the first entry of that
\* branch's prefixes list, in list order, that the last commit message
\* starts with, or the branch's default when none matches; for any other
\* branch it returns the map's top-level default.
C34_FirstMatchingPrefix ==
    detEnv.pc = "returned" =>
        LET m == detEnv.env_map
            b == detEnv.current_branch
        IN
        IF b \in DOMAIN m.branches
        THEN LET ps == m.branches[b].prefixes
                 hits == {i \in DOMAIN ps : StartsWith(detEnv.message, ps[i])}
             IN IF hits = {}
                THEN detEnv.result = m.branches[b].default
                ELSE \E i \in hits :
                        /\ \A j \in hits : i <= j
                        /\ detEnv.result = m.branches[b].of[ps[i]]
        ELSE detEnv.result = m.default

C34_Witness ==
    /\ detEnv.pc = "returned"
    /\ detEnv.current_branch = MAIN_BRANCH
    /\ detEnv.env_map.branches[MAIN_BRANCH].prefixes = <<PrefixF, PrefixFi>>
    /\ detEnv.message = <<"f", "i", "x">>
    /\ detEnv.result = "latest"

\* the text getenv is to take the map from, if there is one
ChosenMapSource ==
    IF detEnv.mapstring.t = "str" /\ detEnv.mapstring.text.kind # "empty"
    THEN [given |-> TRUE, text |-> detEnv.mapstring.text]
    ELSE IF detEnv.mapfile = "env_map.json" /\ detEnv.file.exists
         THEN [given |-> TRUE, text |-> detEnv.file.text]
         ELSE [given |-> FALSE, text |-> NoText]

\* C35: getenv takes the map from mapstring when that is non-empty and from
\* mapfile otherwise; a map that is not valid JSON or not a JSON object, or
\* the absence of both, yields a QueryError and no environment value.
C35_MapSourceAndErrors ==
    /\ detEnv.pc \in {"determine", "returned"} =>
          /\ ChosenMapSource.given
          /\ ChosenMapSource.text.kind = "object"
          /\ detEnv.env_map = ChosenMapSource.text.map
    /\ detEnv.pc = "raised" =>
          /\ detEnv.error = "QueryError"
          /\ detEnv.result = "unset"
    /\ (~ChosenMapSource.given \/ ChosenMapSource.text.kind # "object") =>
          detEnv.pc \in {"getenv", "load_map", "raised"}
    \* an error after the git commands succeeded is an error of the map
    /\ (detEnv.pc = "raised" /\ detEnv.current_branch # <<>>) =>
          (~ChosenMapSource.given \/ ChosenMapSource.text.kind # "object")

C35_Witness ==
    /\ detEnv.pc = "returned"
    /\ detEnv.mapstring.t = "str" /\ detEnv.mapstring.text.kind = "empty"
    /\ detEnv.mapfile = "env_map.json"
    /\ detEnv.env_map = detEnv.file.text.map
    /\ detEnv.result = "stable"

\* ----------------------- CreateTag.createtag / DetermineTag.createtag
\* a format string, as the pieces str.format sees: literal characters and
\* replacement fields
Placeholders ==
    {"{env}", "{version}", "{tag}", "{date}", "{timestamp}", "{commit_hash}"}
\* the keyword arguments each module passes to str.format
FormatArgs(module) ==
    IF module = "CreateTag"
    THEN {"{env}", "{version}", "{date}", "{timestamp}", "{commit_hash}"}
    ELSE {"{tag}", "{date}", "{timestamp}", "{commit_hash}"}

FormatHashDate == <<"{commit_hash}", ".", "{date}">>
FormatVersion == <<"{version}">>
FormatTagStamp == <<"{tag}", "-", "{timestamp}">>
FormatLiteral == <<"l">>
\* a rule: a dict that has a "format" key or not
Rule(f) == [has_format |-> TRUE, format |-> f]
RuleNoFormat == [has_format |-> FALSE, format |-> <<>>]
RuleLists ==
    { <<>>, <<Rule(FormatHashDate)>>,
      <<Rule(FormatVersion), Rule(FormatLiteral)>>,
      <<Rule(FormatLiteral), Rule(FormatVersion)>>,
      <<Rule(FormatTagStamp), Rule(FormatHashDate)>>,
      <<RuleNoFormat, Rule(FormatLiteral)>> }
\* env_data: a dict that has a "rules" key or not
EnvData ==
    { [has_rules |-> TRUE, rules |-> l] : l \in RuleLists }
       \cup { [has_rules |-> FALSE, rules |-> <<>>] }
TagMaps ==
    { [e \in ks |-> ed] : ks \in { {"stable"}, {"stable", "latest"} },
                          ed \in EnvData }
\* a text handed to json.loads: not JSON, null, an array of strings, or an
\* object
NoTagMap == [e \in {} |-> RuleNoFormat]
TagMapTexts ==
    { [kind |-> k, map |-> NoTagMap, elems |-> {}] :
          k \in {"empty", "invalid", "null"} }
       \cup { [kind |-> "array", map |-> NoTagMap, elems |-> es] :
                 es \in { {}, {"stable"} } }
       \cup { [kind |-> "object", map |-> m, elems |-> {}] : m \in TagMaps }

\* now.strftime(current_date + "%s"): the date followed by the unix seconds
TagTimestamp(now) == StrfDate(now) \o IntToStr(now)

\* str.format on one format string: the text, or KeyError on a field that
\* is no keyword argument
RECURSIVE FormatFrom(_, _, _, _)
FormatFrom(fmt, i, args, acc) ==
    IF i > Len(fmt) THEN [error |-> "none", text |-> acc]
    ELSE IF fmt[i] \in Placeholders
         THEN IF fmt[i] \in DOMAIN args
              THEN FormatFrom(fmt, i + 1, args, acc \o args[fmt[i]])
              ELSE [error |-> "KeyError", text |-> <<>>]
         ELSE FormatFrom(fmt, i + 1, args, acc \o <<fmt[i]>>)

StrFormat(fmt, args) == FormatFrom(fmt, 1, args, <<>>)

\* ",".join(tags)
RECURSIVE JoinComma(_)
JoinComma(l) ==
    IF l = <<>> THEN <<>>
    ELSE IF Len(l) = 1 THEN l[1]
    ELSE l[1] \o <<",">> \o JoinComma(Tail(l))

\* the for loop of lines 49-57 / 80-87 from rule i on: the tags list, or the
\* error str.format raised
RECURSIVE TagsFrom(_, _, _, _)
RulesOf_Reversed(env_data) ==
    [i \in DOMAIN env_data.rules |->
        env_data.rules[Len(env_data.rules) + 1 - i]]

RulesOf(env_data) == IF env_data.has_rules THEN env_data.rules ELSE <<>>

TagsFrom(rules, i, args, acc) ==
    IF i > Len(rules) THEN [error |-> "none", tags |-> acc]
    ELSE LET fmt == IF rules[i].has_format THEN rules[i].format ELSE <<>>
             r == StrFormat(fmt, args)
         IN IF r.error # "none" THEN [error |-> r.error, tags |-> <<>>]
            ELSE TagsFrom(rules, i + 1, args, Append(acc, r.text))

\* the env argument as text
TagEnvText(e) ==
    CASE e = "stable" -> <<"s", "t", "a", "b", "l", "e">>
      [] e = "latest" -> <<"l", "a", "t", "e", "s", "t">>
      [] OTHER -> <<"r", "e", "v", "i", "e", "w">>

\* the keyword arguments of the call of str.format
TagArgs(c) ==
    IF c.module = "CreateTag"
    THEN [k \in FormatArgs("CreateTag") |->
             CASE k = "{env}" -> TagEnvText(c.env)
               [] k = "{version}" -> c.version
               [] k = "{date}" -> StrfDate(c.now)
               [] k = "{timestamp}" -> TagTimestamp(c.now)
               [] OTHER -> c.commit_hash]
    ELSE [k \in FormatArgs("DetermineTag") |->
             CASE k = "{tag}" -> c.version
               [] k = "{date}" -> StrfDate(c.now)
               [] k = "{timestamp}" -> TagTimestamp(c.now)
               [] OTHER -> c.commit_hash]

TagMapStrings ==
    { [t |-> "none", text |-> CHOOSE x \in TagMapTexts : x.kind = "empty"] }
       \cup { [t |-> "str", text |-> x] : x \in TagMapTexts }
TagMapFiles == { "None", "", "tag_map.json" }
TagFileContents ==
    { [exists |-> FALSE, text |-> CHOOSE x \in TagMapTexts : x.kind = "empty"] }
       \cup { [exists |-> TRUE, text |-> x] : x \in TagMapTexts }

InitTagMod ==
    /\ RunIdle
    /\ detEnv = NoCall /\ chartUp = NoCall /\ semRel = NoCall
    /\ tagMod \in
         [pc : {"start"},
          module : {"CreateTag", "DetermineTag"},
          env : {"stable", "review"},
          version : { <<"1", ".", "2", ".", "3">> },
          commit_hash : { <<"a", "b", "c">> },
          now : {StartClock, StartClock + 1},
          tagmapstring : TagMapStrings,
          tagmapfile : TagMapFiles,
          file : TagFileContents,
          tag_map : { CHOOSE x \in TagMapTexts : x.kind = "null" },
          tags : { <<>> },
          result : { <<>> },
          error : {"none"}]

\* lines 52-58 of DetermineTag: the commit hash comes from git, which may
\* fail; CreateTag is given it
createtag_hash ==
    /\ tagMod.pc = "start"
    /\ \/ tagMod' = [tagMod EXCEPT !.pc = "load"]
       \/ /\ tagMod.module = "DetermineTag"
          /\ tagMod' = [tagMod EXCEPT !.pc = "raised", !.error = "QueryError"]
    /\ UNCHANGED <<pipeline, detEnv, chartUp, semRel>>

\* json.loads and the isinstance test, wrapped into QueryError: lines 31-36
\* and 62-67, and DetermineTag._load_json_file
LoadChecked(text) ==
    IF text.kind = "object" THEN [error |-> "none", value |-> text]
    ELSE [error |-> "QueryError", value |-> text]

\* line 39 of CreateTag: json.loads alone
LoadUnchecked(text) ==
    IF text.kind \in {"empty", "invalid"}
    THEN [error |-> "JSONDecodeError", value |-> text]
    ELSE [error |-> "none", value |-> text]

\* lines 29-41 of CreateTag, 60-72 of DetermineTag
createtag_load ==
    /\ tagMod.pc = "load"
    /\ LET c == tagMod
           r == IF c.tagmapstring.t = "str"
                   /\ c.tagmapstring.text.kind # "empty"
                THEN LoadChecked(c.tagmapstring.text)
                ELSE IF c.tagmapfile \notin {"None", ""}
                     THEN IF ~c.file.exists
                          THEN [error |-> "QueryError", value |-> c.tag_map]
                          ELSE IF c.module = "CreateTag"
                               THEN LoadUnchecked(c.file.text)
                               ELSE LoadChecked(c.file.text)
                     ELSE [error |-> "QueryError", value |-> c.tag_map]
       IN tagMod' = IF r.error = "none"
                    THEN [c EXCEPT !.pc = "format", !.tag_map = r.value]
                    ELSE [c EXCEPT !.pc = "raised", !.error = r.error]
    /\ UNCHANGED <<pipeline, detEnv, chartUp, semRel>>

\* "env not in tag_map" and tag_map[env] on what json.loads returned
Lookup(value, env) ==
    CASE value.kind = "null" -> [error |-> "TypeError", found |-> FALSE]
      [] value.kind = "array" ->
            IF env \in value.elems
            THEN [error |-> "TypeError", found |-> FALSE]
            ELSE [error |-> "QueryError", found |-> FALSE]
      [] OTHER ->
            IF env \in DOMAIN value.map
            THEN [error |-> "none", found |-> TRUE]
            ELSE [error |-> "QueryError", found |-> FALSE]

\* lines 43-60 / 74-90
createtag_format ==
    /\ tagMod.pc = "format"
    /\ LET c == tagMod
           l == Lookup(c.tag_map, c.env)
       IN
       IF l.error # "none"
       THEN tagMod' = [c EXCEPT !.pc = "raised", !.error = l.error]
       ELSE LET r == TagsFrom(RulesOf(c.tag_map.map[c.env]), 1, TagArgs(c),
                              <<>>)
            IN tagMod' =
                 IF r.error # "none"
                 THEN [c EXCEPT !.pc = "raised", !.error = r.error]
                 ELSE [c EXCEPT !.pc = "returned", !.tags = r.tags,
                                !.result = JoinComma(r.tags)]
    /\ UNCHANGED <<pipeline, detEnv, chartUp, semRel>>

NextTagMod ==
    \/ createtag_hash
    \/ createtag_load
    \/ createtag_format

SpecTagMod == InitTagMod /\ [][NextTagMod]_vars

\* where tag i starts in the joined result
RECURSIVE TagOffset(_, _)
TagOffset(l, i) == IF i = 1 THEN 1 ELSE TagOffset(l, i - 1) + Len(l[i - 1]) + 1

\* the text each format of RuleLists stands for in call c
ExpectedTag(rule, c) ==
    CASE ~rule.has_format -> <<>>
      [] rule.has_format /\ rule.format = FormatHashDate ->
            c.commit_hash \o <<".">> \o StrfDate(c.now)
      [] rule.has_format /\ rule.format = FormatVersion -> c.version
      [] rule.has_format /\ rule.format = FormatTagStamp ->
            c.version \o <<"-">> \o StrfDate(c.now) \o IntToStr(c.now)
      [] OTHER -> <<"l">>

\* the text createtag is to take the tag map from, if there is one
TagChosenSource ==
    IF tagMod.tagmapstring.t = "str" /\ tagMod.tagmapstring.text.kind # "empty"
    THEN [given |-> TRUE, text |-> tagMod.tagmapstring.text]
    ELSE IF tagMod.tagmapfile = "tag_map.json" /\ tagMod.file.exists
         THEN [given |-> TRUE, text |-> tagMod.file.text]
         ELSE [given |-> FALSE, text |-> tagMod.tag_map]

\* C36: createtag, in CreateTag and in DetermineTag, returns one formatted
\* tag per entry of tag_map[env].rules, in rule order, joined by commas,
\* and the empty string when env has no rules; an env that is no key of the
\* tag map yields a QueryError.  Formats are those whose fields the module
\* passes to str.format.
C36_OneTagPerRule ==
    LET c == tagMod
        m == TagChosenSource.text
    IN
    /\ c.pc = "returned" =>
          /\ m.kind = "object" /\ c.env \in DOMAIN m.map
          /\ LET ed == m.map[c.env]
                 n == IF ed.has_rules THEN Len(ed.rules) ELSE 0
             IN
             /\ Len(c.tags) = n
             /\ \A i \in 1..n : c.tags[i] = ExpectedTag(ed.rules[i], c)
             /\ n = 0 => c.result = <<>>
             /\ n > 0 =>
                   /\ Len(c.result) = TagOffset(c.tags, n) + Len(c.tags[n]) - 1
                   /\ \A i \in 1..n :
                         SubSeq(c.result, TagOffset(c.tags, i),
                                TagOffset(c.tags, i) + Len(c.tags[i]) - 1)
                            = c.tags[i]
                   /\ \A i \in 2..n :
                         c.result[TagOffset(c.tags, i) - 1] = ","
    /\ (TagChosenSource.given /\ m.kind = "object"
        /\ c.pc \in {"returned", "raised"} /\ c.error # "QueryError") =>
          /\ c.env \in DOMAIN m.map
          /\ \/ c.pc = "returned"
             \/ /\ c.error = "KeyError"
                /\ \E i \in DOMAIN m.map[c.env].rules :
                      \E k \in DOMAIN m.map[c.env].rules[i].format :
                         m.map[c.env].rules[i].format[k]
                            \in Placeholders \ FormatArgs(c.module)
    /\ (TagChosenSource.given /\ m.kind = "object"
        /\ c.env \notin DOMAIN m.map) => c.pc # "returned"

C36_Witness ==
    /\ tagMod.pc = "returned" /\ tagMod.module = "CreateTag"
    /\ Len(tagMod.tags) = 2
    /\ tagMod.result = <<"l", ",", "1", ".", "2", ".", "3">>

\* C37: a malformed tag map (not JSON, or JSON that is no object) makes
\* createtag fail with a QueryError, whether it comes from tagmapstring or
\* from tagmapfile, in CreateTag and in DetermineTag; so does supplying
\* neither.
C37_MalformedTagMapIsQueryError ==
    (/\ tagMod.pc \in {"returned", "raised"}
     /\ \/ ~TagChosenSource.given
        \/ TagChosenSource.text.kind # "object")
       => /\ tagMod.pc = "raised"
          /\ tagMod.error = "QueryError"

\* ------------------------------- ChartUpdater._increment_patch_version
\* the longest version string tried
MaxVersionLen == 5
VersionChars == {"0", "9", ".", "x", "-", " "}
RECURSIVE StringsUpTo(_)
StringsUpTo(n) ==
    IF n = 0 THEN { <<>> }
    ELSE LET shorter == StringsUpTo(n - 1)
         IN shorter \cup { Append(w, ch) : w \in {x \in shorter : Len(x) = n - 1},
                                            ch \in VersionChars }
VersionStrings == StringsUpTo(MaxVersionLen)

\* str.strip()
RECURSIVE Strip(_)
Strip(str) ==
    IF str = <<>> THEN <<>>
    ELSE IF Head(str) = " " THEN Strip(Tail(str))
    ELSE IF str[Len(str)] = " " THEN Strip(SubSeq(str, 1, Len(str) - 1))
    ELSE str

\* str.split("."): the parts between the dots, empty ones included
RECURSIVE SplitFrom(_, _, _, _)
SplitFrom(str, i, part, acc) ==
    IF i > Len(str) THEN Append(acc, part)
    ELSE IF str[i] = "." THEN SplitFrom(str, i + 1, <<>>, Append(acc, part))
    ELSE SplitFrom(str, i + 1, Append(part, str[i]), acc)

SplitDots(str) == SplitFrom(str, 1, <<>>, <<>>)

\* the value of a run of decimal digits
DigitValue(ch) == CHOOSE d \in 0..9 : Digit(d) = ch
RECURSIVE DigitsValue(_)
DigitsValue(ds) ==
    IF ds = <<>> THEN 0
    ELSE 10 * DigitsValue(SubSeq(ds, 1, Len(ds) - 1)) + DigitValue(ds[Len(ds)])

AllDigits(str) == str # <<>> /\ \A i \in DOMAIN str : IsDigit(str[i])

\* int(text): surrounding whitespace and one sign are accepted
PyInt(text) ==
    LET t == Strip(text)
        signed == t # <<>> /\ t[1] \in {"-", "+"}
        ds == IF signed THEN Tail(t) ELSE t
    IN IF AllDigits(ds)
       THEN [ok |-> TRUE,
             val |-> IF signed /\ t[1] = "-" THEN 0 - DigitsValue(ds)
                     ELSE DigitsValue(ds)]
       ELSE [ok |-> FALSE, val |-> 0]

\* f"{n}" for an int
IntText(n) == IF n < 0 THEN <<"-">> \o IntToStr(0 - n) ELSE IntToStr(n)

\* _increment_patch_version
IncrementPatchVersion_BumpsMinor(ver) ==
    LET parts == SplitDots(Strip(ver))
    IN IF Len(parts) = 3 /\ PyInt(parts[2]).ok
       THEN [error |-> "none",
             value |-> parts[1] \o <<".">> \o IntText(PyInt(parts[2]).val + 1)
                       \o <<".">> \o parts[3]]
       ELSE [error |-> "ValueError", value |-> <<>>]

IncrementPatchVersion(ver) ==
    LET parts == SplitDots(Strip(ver))
    IN IF Len(parts) = 3 /\ PyInt(parts[3]).ok
       THEN [error |-> "none",
             value |-> parts[1] \o <<".">> \o parts[2] \o <<".">>
                       \o IntText(PyInt(parts[3]).val + 1)]
       ELSE [error |-> "ValueError", value |-> <<>>]

InitIncr ==
    /\ RunIdle
    /\ detEnv = NoCall /\ tagMod = NoCall /\ semRel = NoCall
    /\ chartUp \in [pc : {"increment_patch_version"},
                    version : VersionStrings,
                    result : { <<>> },
                    error : {"none"}]

increment_patch_version ==
    /\ chartUp.pc = "increment_patch_version"
    /\ LET r == IncrementPatchVersion(chartUp.version)
       IN chartUp' = [chartUp EXCEPT
                        !.pc = IF r.error = "none" THEN "returned"
                               ELSE "raised",
                        !.result = r.value,
                        !.error = r.error]
    /\ UNCHANGED <<pipeline, detEnv, tagMod, semRel>>

NextIncr == increment_patch_version

SpecIncr == InitIncr /\ [][NextIncr]_vars

\* the places of the dots in a text
DotsOf(str) == {i \in DOMAIN str : str[i] = "."}

\* a text Python reads as an integer: spaces, one optional sign, digits,
\* spaces
IsIntegerText(str) ==
    \E a \in 1..(Len(str) + 1), b \in 0..Len(str) :
        /\ a <= b
        /\ \A i \in 1..(a - 1) : str[i] = " " \/ (i = a - 1 /\ str[i] \in {"-", "+"})
        /\ \A i \in a..b : IsDigit(str[i])
        /\ \A i \in (b + 1)..Len(str) : str[i] = " "

\* C38: for "M.m.p" with p a non-negative integer the result is
\* "M.m.(p+1)", major and minor unchanged; a string that does not split
\* into exactly three dot-separated parts, or whose patch part is not an
\* integer, raises ValueError and returns nothing.
C38_IncrementPatch ==
    chartUp.pc \in {"returned", "raised"} =>
        LET v == chartUp.version
            dots == DotsOf(v)
        IN
        /\ Cardinality(dots) # 2 =>
              chartUp.pc = "raised" /\ chartUp.error = "ValueError"
                 /\ chartUp.result = <<>>
        /\ Cardinality(dots) = 2 =>
              LET d1 == CHOOSE i \in dots : \A j \in dots : i <= j
                  d2 == CHOOSE i \in dots : \A j \in dots : j <= i
                  major == SubSeq(v, 1, d1 - 1)
                  minor == SubSeq(v, d1 + 1, d2 - 1)
                  patch == SubSeq(v, d2 + 1, Len(v))
              IN
              /\ (AllDigits(patch) /\ (major = <<>> \/ major[1] # " ")) =>
                    /\ chartUp.pc = "returned"
                    /\ chartUp.result = major \o <<".">> \o minor \o <<".">>
                                        \o IntToStr(DigitsValue(patch) + 1)
              /\ ~IsIntegerText(patch) =>
                    chartUp.pc = "raised" /\ chartUp.error = "ValueError"
                       /\ chartUp.result = <<>>

C38_Witness ==
    /\ chartUp.pc = "returned"
    /\ chartUp.version = <<"0", ".", "9", ".", "9">>
    /\ chartUp.result = <<"0", ".", "9", ".", "1", "0">>

\* ------------------------------------------- ChartUpdater.updatechart
ChartBranches == {"main", "dev"}
AppVersions == { <<"1", ".", "2", ".", "3">>, <<"2", ".", "0", ".", "0">> }
\* what yq prints for .version of the Chart.yaml in the repository
YqVersions ==
    { <<"0", ".", "1", ".", "0">>, <<"1", ".", "2", ".", "9">>,
      <<"1", ".", "2">>, <<"n", "u", "l", "l">>,
      <<"1", ".", "2", ".", "x">>, <<"1", ".", "0", ".", "0", ".", "0">> }
\* values_json: a dict, a JSON text of an object, a text that is not JSON,
\* an object without the app_version key
ValuesKinds == {"dict", "json", "invalid", "no_app_version"}

RemoteChart(ver) == [version |-> ver, appVersion |-> <<"0">>, commits |-> 0]

InitChart ==
    /\ RunIdle
    /\ detEnv = NoCall /\ tagMod = NoCall /\ semRel = NoCall
    /\ \E kind \in ValuesKinds, app \in AppVersions, br \in ChartBranches,
          ver \in YqVersions :
         chartUp = [pc |-> "updatechart",
                    values_json |-> [kind |-> kind, app_version |-> app],
                    branch |-> br,
                    before |-> [b \in ChartBranches |-> RemoteChart(ver)],
                    remote |-> [b \in ChartBranches |-> RemoteChart(ver)],
                    app_version |-> <<>>,
                    chart_version |-> <<>>,
                    new_chart_version |-> <<>>,
                    writes |-> <<>>,
                    commits |-> 0,
                    pushes |-> <<>>,
                    cause |-> "none",
                    error |-> "none"]

\* updatechart, lines 159-167: whatever _update_chart_files raises leaves
\* as QueryError
WrapError_Passthrough(e) == e

WrapError(e) == "QueryError"

ChartRaise(e) ==
    [chartUp EXCEPT !.pc = "raised", !.cause = e, !.error = WrapError(e)]

\* lines 45-53: values_json["app_version"] of the dict or of json.loads
update_parse_values ==
    /\ chartUp.pc = "updatechart"
    /\ chartUp' =
         CASE chartUp.values_json.kind = "invalid" ->
                ChartRaise("JSONDecodeError")
           [] chartUp.values_json.kind = "no_app_version" ->
                ChartRaise("KeyError")
           [] OTHER ->
                [chartUp EXCEPT !.pc = "read",
                                !.app_version = chartUp.values_json.app_version]
    /\ UNCHANGED <<pipeline, detEnv, tagMod, semRel>>

\* lines 56-91: the clone of the branch and yq eval '.version', awaited
update_read_version ==
    /\ chartUp.pc = "read"
    /\ \/ chartUp' = ChartRaise("ExecError")
       \/ chartUp' = [chartUp EXCEPT
                        !.pc = "increment",
                        !.chart_version =
                            Strip(chartUp.remote[chartUp.branch].version)]
    /\ UNCHANGED <<pipeline, detEnv, tagMod, semRel>>

\* line 92
update_increment ==
    /\ chartUp.pc = "increment"
    /\ LET r == IncrementPatchVersion(chartUp.chart_version)
       IN chartUp' = IF r.error # "none" THEN ChartRaise(r.error)
                     ELSE [chartUp EXCEPT !.pc = "push",
                                          !.new_chart_version = r.value]
    /\ UNCHANGED <<pipeline, detEnv, tagMod, semRel>>

ChartExecs == <<"edit_chart", "edit_values", "commit", "push">>

\* lines 95-124: the yq edits, git add/commit and git push run in this
\* order when the container is awaited; the first failing one stops the
\* rest
update_commit_push ==
    /\ chartUp.pc = "push"
    /\ \E done \in 0..Len(ChartExecs) :
         LET ran(step) == \E i \in 1..done : ChartExecs[i] = step
             pushed == [branch |-> chartUp.branch,
                        version |-> chartUp.new_chart_version,
                        appVersion |-> chartUp.app_version]
             after == [chartUp EXCEPT
                 !.writes = (IF ran("edit_chart") THEN <<"Chart.yaml">> ELSE <<>>)
                            \o (IF ran("edit_values") THEN <<"values">> ELSE <<>>),
                 !.commits = IF ran("commit") THEN 1 ELSE 0,
                 !.pushes = IF ran("push") THEN <<pushed>> ELSE <<>>,
                 !.remote = IF ran("push")
                            THEN [chartUp.remote EXCEPT ![chartUp.branch] =
                                    [version |-> pushed.version,
                                     appVersion |-> pushed.appVersion,
                                     commits |-> @.commits + 1]]
                            ELSE chartUp.remote]
         IN chartUp' = IF done = Len(ChartExecs)
                       THEN [after EXCEPT !.pc = "returned"]
                       ELSE [after EXCEPT !.pc = "raised",
                                          !.cause = "ExecError",
                                          !.error = WrapError("ExecError")]
    /\ UNCHANGED <<pipeline, detEnv, tagMod, semRel>>

NextChart ==
    \/ update_parse_values
    \/ update_read_version
    \/ update_increment
    \/ update_commit_push

SpecChart == InitChart /\ [][NextChart]_vars

\* C39: every failure of updatechart (parsing values_json, cloning or
\* reading the version, incrementing it, editing, committing or pushing)
\* reaches the caller as QueryError; when the version cannot be incremented
\* nothing is written, committed or pushed; a call that returns pushed
\* exactly one commit to the given branch, whose Chart.yaml has the
\* patch-incremented version and appVersion = values_json.app_version.
C39_UpdateChart ==
    /\ chartUp.pc = "raised" => chartUp.error = "QueryError"
    /\ chartUp.cause # "none" => chartUp.pc = "raised"
    /\ chartUp.cause = "ValueError" =>
          /\ chartUp.writes = <<>> /\ chartUp.commits = 0
          /\ chartUp.pushes = <<>> /\ chartUp.remote = chartUp.before
    /\ chartUp.pc = "returned" =>
          LET was == chartUp.before[chartUp.branch]
              now == chartUp.remote[chartUp.branch]
          IN
          /\ Len(chartUp.pushes) = 1 /\ chartUp.commits = 1
          /\ chartUp.pushes[1].branch = chartUp.branch
          /\ now.commits = was.commits + 1
          /\ now.version = IncrementPatchVersion(was.version).value
          /\ IncrementPatchVersion(was.version).error = "none"
          /\ now.appVersion = chartUp.values_json.app_version
          /\ \A b \in ChartBranches \ {chartUp.branch} :
                chartUp.remote[b] = chartUp.before[b]

C39_Witness ==
    /\ chartUp.pc = "returned"
    /\ chartUp.before["dev"].version = <<"1", ".", "2", ".", "9">>
    /\ chartUp.branch = "dev"
    /\ chartUp.remote["dev"].version = <<"1", ".", "2", ".", "1", "0">>
    /\ chartUp.remote["dev"].appVersion = <<"2", ".", "0", ".", "0">>

\* --------------------------------------- SemanticRelease.semanticrelease
\* how many calls one SemanticRelease class serves
MaxReleaseCalls == 2
\* CiProvider, lines 29-33
CI_NONE == "none"
CI_GITHUB == "github"
CommitAnalyzer == "@semantic-release/commit-analyzer"
ExecPlugin == "@semantic-release/exec"
GithubPlugin == "@semantic-release/github"
ReleaseNotesGenerator == "@semantic-release/release-notes-generator"

\* ReleaseRC(): the configuration object of releaserc.py; its flags start
\* at some value, its lists empty
NewReleaseRCs ==
    [branches : { <<>> }, repository_url : { <<>> }, plugins : { <<>> },
     dry_run : BOOLEAN, debug : BOOLEAN, ci : BOOLEAN]

\* ReleaseRC.add_branch, set_repository_url, add_plugin, set_dry_run,
\* set_debug, set_ci
add_branch(rc, b) == [rc EXCEPT !.branches = Append(@, b)]
set_repository_url(rc, url) == [rc EXCEPT !.repository_url = url]
add_plugin(rc, plugin) == [rc EXCEPT !.plugins = Append(@, plugin)]
set_dry_run(rc, v) == [rc EXCEPT !.dry_run = v]
set_debug(rc, v) == [rc EXCEPT !.debug = v]
set_ci(rc, v) == [rc EXCEPT !.ci = v]

\* semanticrelease(github_token, dry_run, debug, ci)
ReleaseArgs ==
    [github_token : Tokens, dry_run : BOOLEAN, debug : BOOLEAN, ci : BOOLEAN]

InitRelease ==
    /\ RunIdle
    /\ detEnv = NoCall /\ tagMod = NoCall /\ chartUp = NoCall
    /\ \E rc \in NewReleaseRCs :
         semRel = [pc |-> "ready",
                   calls |-> 0,
                   args |-> [github_token |-> "None", dry_run |-> FALSE,
                             debug |-> FALSE, ci |-> TRUE],
                   branch |-> "main",
                   github_token |-> "None",
                   repository_url |-> <<>>,
                   dry_run |-> FALSE, debug |-> FALSE, ci |-> TRUE,
                   ci_provider |-> CI_NONE,
                   releaserc |-> rc,
                   added |-> <<>>]

\* lines 76-90: the arguments are stored and the provider follows the token
semanticrelease ==
    /\ semRel.pc \in {"ready", "returned", "raised"}
    /\ semRel.calls < MaxReleaseCalls
    /\ \E a \in ReleaseArgs :
         semRel' = [semRel EXCEPT
                      !.pc = "configure",
                      !.calls = @ + 1,
                      !.args = a,
                      !.github_token = a.github_token,
                      !.dry_run = a.dry_run,
                      !.debug = a.debug,
                      !.ci = a.ci,
                      !.ci_provider = IF a.github_token # "None"
                                      THEN CI_GITHUB ELSE CI_NONE,
                      !.added = <<>>]
    /\ UNCHANGED <<pipeline, detEnv, tagMod, chartUp>>

\* _configure_release_params, lines 133-182, on self
ConfigureReleaseParams_LocalKeepsFlags(self) ==
    LET base == add_plugin(add_plugin(
                    set_repository_url(add_branch(self.releaserc, self.branch),
                                       self.repository_url),
                    CommitAnalyzer), ExecPlugin)
    IN IF self.ci_provider = CI_GITHUB
       THEN set_ci(set_debug(set_dry_run(
                add_plugin(add_plugin(base, GithubPlugin),
                           ReleaseNotesGenerator),
                self.dry_run), self.debug), self.ci)
       ELSE set_ci(set_debug(set_dry_run(base, self.dry_run), TRUE), FALSE)

ConfigureReleaseParams(self) ==
    LET base == add_plugin(add_plugin(
                    set_repository_url(add_branch(self.releaserc, self.branch),
                                       self.repository_url),
                    CommitAnalyzer), ExecPlugin)
    IN IF self.ci_provider = CI_GITHUB
       THEN set_ci(set_debug(set_dry_run(
                add_plugin(add_plugin(base, GithubPlugin),
                           ReleaseNotesGenerator),
                self.dry_run), self.debug), self.ci)
       ELSE set_ci(set_debug(set_dry_run(base, TRUE), TRUE), FALSE)

\* line 93
configure_release_params ==
    /\ semRel.pc = "configure"
    /\ LET rc == ConfigureReleaseParams(semRel)
       IN semRel' = [semRel EXCEPT
                       !.pc = "run",
                       !.releaserc = rc,
                       !.added = SubSeq(rc.plugins,
                                        Len(semRel.releaserc.plugins) + 1,
                                        Len(rc.plugins))]
    /\ UNCHANGED <<pipeline, detEnv, tagMod, chartUp>>

\* lines 97-129: the container runs with the configuration; the call
\* returns the two versions, or the awaited run raises
run_semantic_release_container ==
    /\ semRel.pc = "run"
    /\ \E outcome \in {"returned", "raised"} :
         semRel' = [semRel EXCEPT !.pc = outcome]
    /\ UNCHANGED <<pipeline, detEnv, tagMod, chartUp>>

NextRelease ==
    \/ semanticrelease
    \/ configure_release_params
    \/ run_semantic_release_container

SpecRelease == InitRelease /\ [][NextRelease]_vars

Configured == semRel.pc \in {"run", "returned", "raised"}

HasPlugin(plugins, p) == \E i \in DOMAIN plugins : plugins[i] = p

\* C40: once a call has configured the release, a call without token has
\* dry_run = TRUE, debug = TRUE, ci = FALSE whatever the arguments were and
\* has not added the GitHub plugin; a call with a token has exactly the
\* caller's dry_run, debug and ci.
C40_LocalModeForcesDryRun ==
    Configured =>
        /\ semRel.args.github_token = "None" =>
              /\ semRel.releaserc.dry_run = TRUE
              /\ semRel.releaserc.debug = TRUE
              /\ semRel.releaserc.ci = FALSE
              /\ ~HasPlugin(semRel.added, GithubPlugin)
        /\ semRel.args.github_token # "None" =>
              /\ semRel.releaserc.dry_run = semRel.args.dry_run
              /\ semRel.releaserc.debug = semRel.args.debug
              /\ semRel.releaserc.ci = semRel.args.ci

C40_Witness ==
    /\ Configured
    /\ semRel.calls = 2
    /\ semRel.args = [github_token |-> "None", dry_run |-> FALSE,
                      debug |-> FALSE, ci |-> TRUE]
    /\ semRel.releaserc.dry_run /\ semRel.releaserc.debug
    /\ ~semRel.releaserc.ci
    /\ HasPlugin(semRel.releaserc.plugins, GithubPlugin)

====
